---- MODULE Spec2Model ----
(***************************************************************************)
(* Retrieval and ranking engine of the Ori-Mnemos vault: link graph,       *)
(* incremental embedding index, score-weighted RRF fusion, exploration     *)
(* injection, the propensity log, intent classification and vitality.      *)
(*                                                                         *)
(* Specifications.  Spec: corpus changes and index builds.  SpecQuery:     *)
(* query_ranked and query_similar against a vault.  SpecGraph, SpecFusion, *)
(* SpecClassify, SpecVitality: one call of buildGraph,                     *)
(* fuseScoreWeightedRRF, classifyIntent, computeVitalityFull.              *)
(* SpecBridges, SpecEncode, SpecConfig, SpecBM25, SpecPropensity: one call *)
(* of findBridgeNotes, encodePiecewiseLinear, loadConfig, searchBM25 over  *)
(* two index builds, computePropensity and buildPropensityMap.  SpecLock:  *)
(* concurrent callers of acquireLock and releaseLock.                      *)
(*                                                                         *)
(* Numbers.  Raw signal scores are integers (fixed-point units).  Signal   *)
(* weights are integers in halves (2.0/1.0/1.5 are 4/2/3), budgets are     *)
(* fractions num/den.  A fused score w*s/(k+rank+1) is kept exactly as     *)
(* the integer w*s*(Denom/(k+rank+1)), Denom being the product of all      *)
(* denominators k+rank+1 a list can produce; order and equality of fused   *)
(* scores are those of the exact rationals.  Vitality is in thousandths.   *)
(***************************************************************************)
EXTENDS Integers, Sequences, FiniteSets, TLC

VARIABLES
    notes,    \* the corpus: title -> note file, for the files of notes/
    dir,      \* whether the directory notes/ exists
    db,       \* the embedding store: whether the file exists, and its rows
    now,      \* the wall clock
    build,    \* the buildIndex call in progress, if any
    hist,     \* what has happened since the last completed index build
    last,     \* the IndexStats the index build that just returned reported
    env,      \* the scores the embedding model, BM25 and the graph walk give
    log,      \* the propensity log: the access events appended so far
    resp,     \* the SearchResult the query that just returned gave
    graph,    \* the LinkGraph the last buildGraph call returned
    gdone,    \* whether a buildGraph call has returned
    fin,      \* fusion: the arguments of the fuseScoreWeightedRRF call
    fout,     \* fusion: the returned list of the call
    fdone,    \* fusion: whether the call has returned
    cin,      \* intent: the query of the classifyIntent call
    cout,     \* intent: the returned intent and confidence
    cdone,    \* intent: whether the call has returned
    vin,      \* vitality: the note and configuration of the call
    vop,      \* vitality: the operation that computed the score
    vout,     \* vitality: the returned score
    vdone,    \* vitality: whether the call has returned
    pin,      \* the arguments of the call of a pure function
    pout,     \* the value that call returned
    pdone,    \* whether that call has returned
    locks,    \* the lock directories .ori-lock-<name> that exist under the root
    agents    \* each concurrent caller's position in acquireLock / releaseLock

fusionVars == <<fin, fout, fdone>>
classifyVars == <<cin, cout, cdone>>
vitalityVars == <<vin, vop, vout, vdone>>
graphVars == <<graph, gdone>>
lockVars == <<locks, agents>>
callVars == <<pin, pout, pdone, lockVars>>
pureVars == <<graphVars, fusionVars, classifyVars, vitalityVars, callVars>>
indexVars == <<db, now, build, hist, last>>
queryVars == <<env, log, resp>>
vars == <<notes, dir, db, now, build, hist, last, env, log, resp,
          graph, gdone, fin, fout, fdone, cin, cout, cdone, vin, vop, vout, vdone,
          pin, pout, pdone, locks, agents>>

\* ------------------------------------------------------------------------
\* Generic helpers
\* ------------------------------------------------------------------------

Range(f) == {f[i] : i \in DOMAIN f}

RECURSIVE SumOver(_, _)
SumOver(S, f) ==
    IF S = {} THEN 0
    ELSE LET x == CHOOSE y \in S : TRUE IN f[x] + SumOver(S \ {x}, f)

RECURSIVE ProdRange(_, _)
ProdRange(lo, hi) == IF lo > hi THEN 1 ELSE lo * ProdRange(lo + 1, hi)

\* All sequences without repetition over the set S, of every length.
RECURSIVE InjSeqs(_)
InjSeqs(S) ==
    {<<>>} \cup UNION {{<<x>> \o s : s \in InjSeqs(S \ {x})} : x \in S}

Titles == {"a", "b", "c"}

\* ------------------------------------------------------------------------
\* Note files and the link graph (core/graph.ts)
\* ------------------------------------------------------------------------

\* A note file is its metadata header's description and its body, each a
\* sequence of tokens: a word, or a link token [[text]] with the raw text
\* between the brackets.
Word(w) == [link |-> FALSE, text |-> w]
Link(raw) == [link |-> TRUE, text |-> raw]

\* String.prototype.trim on the raw link texts of the model.
Trim(raw) ==
    CASE raw = " a" -> "a"
      [] raw = " " -> ""
      [] OTHER -> raw

\* The file's text as buildGraph reads it: header first, then body.
FileContent(file) == file.description \o file.body

\* The matchAll loop of buildGraph (graph.ts 29-36): trimmed, non-empty
\* captures, collected in a Set, which keeps the order of first insertion.
RECURSIVE LinkSeq(_, _)
LinkSeq(acc, content) ==
    IF content = <<>> THEN acc
    ELSE LET target == Trim(Head(content).text)
             add == Head(content).link /\ target # "" /\ target \notin Range(acc)
         IN LinkSeq(IF add THEN Append(acc, target) ELSE acc, Tail(content))

ExtractLinks(content) == Range(LinkSeq(<<>>, content))

\* readdir order of the note files.
TitleOrder == <<"a", "b", "c">>

RECURSIVE FilesIn(_, _)
FilesIn(order, present) ==
    IF order = <<>> THEN <<>>
    ELSE (IF Head(order) \in present THEN <<Head(order)>> ELSE <<>>)
         \o FilesIn(Tail(order), present)

listNoteTitles(corpus) == FilesIn(TitleOrder, DOMAIN corpus)

\* graph.ts 39-42: add title to incoming[target] for every target.
AddIncomingMutNoSelf(incoming, title, links) ==
    [t \in DOMAIN incoming \cup (links \ {title}) |->
        (IF t \in DOMAIN incoming THEN incoming[t] ELSE {})
        \cup (IF t \in links \ {title} THEN {title} ELSE {})]

AddIncoming(incoming, title, links) ==
    [t \in DOMAIN incoming \cup links |->
        (IF t \in DOMAIN incoming THEN incoming[t] ELSE {})
        \cup (IF t \in links THEN {title} ELSE {})]

EmptyGraph == [outgoing |-> <<>>, incoming |-> <<>>]

\* The loop over the markdown files (graph.ts 26-43).
RECURSIVE GraphLoop(_, _, _)
GraphLoop(files, corpus, g) ==
    IF files = <<>> THEN g
    ELSE LET title == Head(files)
             links == ExtractLinks(FileContent(corpus[title]))
         IN GraphLoop(Tail(files), corpus,
                [outgoing |-> [t \in DOMAIN g.outgoing \cup {title} |->
                                  IF t = title THEN links ELSE g.outgoing[t]],
                 incoming |-> AddIncoming(g.incoming, title, links)])

buildGraph(corpus) == GraphLoop(listNoteTitles(corpus), corpus, EmptyGraph)

\* Array.prototype.sort() on titles: the order of their code units.
Alphabetical == <<"a", "b", "c">>
SortTitles(S) == FilesIn(Alphabetical, S)

\* graph.ts 52-63: the targets of all outgoing sets that are no note, sorted.
findDanglingLinksMutNoFilter(g, allNotes) ==
    SortTitles(UNION {g.outgoing[t] : t \in DOMAIN g.outgoing})

findDanglingLinks(g, allNotes) ==
    LET existing == Range(allNotes)
    IN SortTitles({target \in UNION {g.outgoing[t] : t \in DOMAIN g.outgoing} :
                        target \notin existing})

\* linkGraph.incoming.get(title)?.size ?? 0, the in-degree handed to
\* computeVitalityFull.
InDegree(g, title) ==
    IF title \in DOMAIN g.incoming THEN Cardinality(g.incoming[title]) ELSE 0

\* ------------------------------------------------------------------------
\* Embedding index (core/engine.ts)
\* ------------------------------------------------------------------------

NL == Word("\n")

\* The embedding function E is a pure function of its text.
embedText(text) == [embedded |-> text]

\* SHA-256, taken to be collision-free: the digest stands for its input.
hashContent(content) == [sha256 |-> content]

\* The template `${title}\n${description}\n${body}` (engine.ts 346, 411).
HashInputMutNoBody(title, description, body) == <<Word(title), NL>> \o description
HashInput(title, description, body) ==
    <<Word(title), NL>> \o description \o <<NL>> \o body

ConnectedLimit == 10

\* buildKnowledgeEnrichedText for a note without type and project keys:
\* title, description, and up to ten outgoing link targets.
buildKnowledgeEnrichedText(title, file) ==
    LET targets == LinkSeq(<<>>, FileContent(file))
        connected == SubSeq(targets, 1, IF Len(targets) < ConnectedLimit
                                        THEN Len(targets) ELSE ConnectedLimit)
    IN <<Word(title)>>
       \o (IF file.description # <<>> THEN <<NL>> \o file.description ELSE <<>>)
       \o (IF connected # <<>>
           THEN <<NL, Word("Connected:")>> \o [i \in DOMAIN connected |-> Word(connected[i])]
           ELSE <<>>)

\* The row indexNote writes (engine.ts 309-363); the type and community
\* vectors, which take no part in skip detection, are left out.
NoteRow(title, file, clock) ==
    [titleVec    |-> embedText(<<Word(title)>>),
     descVec     |-> embedText(IF file.description # <<>> THEN file.description
                               ELSE <<Word(title)>>),
     bodyVec     |-> embedText(buildKnowledgeEnrichedText(title, file)),
     contentHash |-> hashContent(HashInput(title, file.description, file.body)),
     indexedAt   |-> clock]

\* INSERT OR REPLACE INTO embeddings: one row per title.
Upsert(rows, title, row) ==
    [t \in DOMAIN rows \cup {title} |-> IF t = title THEN row ELSE rows[t]]

indexNote(rows, title, file, clock) == Upsert(rows, title, NoteRow(title, file, clock))

NoDB == [exists |-> FALSE, rows |-> <<>>]
Idle == [pc |-> "idle", force |-> FALSE, files |-> <<>>, i |-> 0,
         existingHashes |-> <<>>, indexed |-> 0, skipped |-> 0, rows0 |-> <<>>]
NoStats == [valid |-> FALSE, indexed |-> 0, skipped |-> 0, total |-> 0,
            force |-> FALSE, rows0 |-> <<>>, hist |-> [kind |-> "other"]]

Hist(kind) == [kind |-> kind]
HistBodyEdit(t) == [kind |-> "bodyEdit", title |-> t]
HistInterrupt(force) == [kind |-> "interrupt", force |-> force]

\* buildIndex up to the loop (engine.ts 370-400): open or create the store,
\* snapshot the stored hashes, list the note files.  rows0 remembers the
\* rows the build started from.
BuildBegin(corpus, store, force) ==
    [pc |-> "loop", force |-> force, files |-> listNoteTitles(corpus), i |-> 1,
     existingHashes |-> [t \in DOMAIN store.rows |-> store.rows[t].contentHash],
     indexed |-> 0, skipped |-> 0, rows0 |-> store.rows]

\* The skip test of the loop (engine.ts 415).
SkipsMutTitleOnly(b, title, file) ==
    /\ ~b.force
    /\ title \in DOMAIN b.existingHashes
Skips(b, title, file) ==
    /\ ~b.force
    /\ title \in DOMAIN b.existingHashes
    /\ b.existingHashes[title]
       = hashContent(HashInput(title, file.description, file.body))

\* One iteration of the loop over the files (engine.ts 402-431).
BuildIter(b, corpus, rows, clock) ==
    LET title == b.files[b.i]
        file == corpus[title]
    IN IF Skips(b, title, file)
       THEN [b |-> [b EXCEPT !.i = @ + 1, !.skipped = @ + 1], rows |-> rows]
       ELSE [b |-> [b EXCEPT !.i = @ + 1, !.indexed = @ + 1],
             rows |-> indexNote(rows, title, file, clock)]

\* The IndexStats returned (engine.ts 435-441).
StatsOf(b) == [indexed |-> b.indexed, skipped |-> b.skipped, total |-> Len(b.files)]

\* ------------------------------------------------------------------------
\* Score-weighted RRF (core/fusion.ts)
\* ------------------------------------------------------------------------

SIGNAL_NAMES == <<"composite", "keyword", "graph">>
SignalSet == Range(SIGNAL_NAMES)

RRF_K == 60
DefaultWeights == [composite |-> 4, keyword |-> 2, graph |-> 3]

\* Longest list a signal can return in the model; the common denominator of
\* the fused scores.
MaxRank == Cardinality(Titles)
Denom(k) == ProdRange(k + 1, k + MaxRank)

\* fusion.ts buildIndex: title -> {rank, score}; a later entry of the same
\* title overwrites an earlier one (Map.set).
fusionBuildIndex(list) ==
    [t \in {list[i].title : i \in DOMAIN list} |->
        LET i == CHOOSE j \in DOMAIN list :
                    /\ list[j].title = t
                    /\ \A j2 \in DOMAIN list : list[j2].title = t => j2 <= j
        IN [rank |-> i - 1, score |-> list[i].score]]

\* The Set of titles in insertion order: composite, then keyword, then graph.
RECURSIVE AddTitles(_, _)
AddTitles(acc, list) ==
    IF list = <<>> THEN acc
    ELSE LET t == Head(list).title
         IN AddTitles(IF t \in Range(acc) THEN acc ELSE Append(acc, t), Tail(list))

CollectTitles(signals) ==
    AddTitles(AddTitles(AddTitles(<<>>, signals.composite), signals.keyword),
              signals.graph)

\* One signal's term of the fused score for an index entry.
RrfTermMutRank(w, entry, k) == w * entry.score * (Denom(k) \div (k + entry.rank))
RrfTerm(w, entry, k) == w * entry.score * (Denom(k) \div (k + entry.rank + 1))

\* The loop over SIGNAL_NAMES for one title (fusion.ts 84-118).
FuseTitleMutNoWeight(title, indexes, weights, k) ==
    LET present == {n \in SignalSet : title \in DOMAIN indexes[n]}
        term == [n \in present |-> RrfTerm(1, indexes[n][title], k)]
        fusedScore == SumOver(present, term)
    IN [title   |-> title,
        score   |-> fusedScore,
        signals |-> [n \in present \cup {"rrf"} |->
                        IF n = "rrf" THEN fusedScore ELSE indexes[n][title].score]]

FuseTitle(title, indexes, weights, k) ==
    LET present == {n \in SignalSet : title \in DOMAIN indexes[n]}
        term == [n \in present |-> RrfTerm(weights[n], indexes[n][title], k)]
        fusedScore == SumOver(present, term)
    IN [title   |-> title,
        score   |-> fusedScore,
        signals |-> [n \in present \cup {"rrf"} |->
                        IF n = "rrf" THEN fusedScore ELSE indexes[n][title].score]]

\* Array.prototype.sort with (a, b) => b.score - a.score: stable, descending.
RECURSIVE InsertDescMutTies(_, _)
InsertDescMutTies(sorted, e) ==
    IF sorted = <<>> THEN <<e>>
    ELSE IF Head(sorted).score > e.score
         THEN <<Head(sorted)>> \o InsertDescMutTies(Tail(sorted), e)
         ELSE <<e>> \o sorted

RECURSIVE InsertDesc(_, _)
InsertDesc(sorted, e) ==
    IF sorted = <<>> THEN <<e>>
    ELSE IF Head(sorted).score >= e.score
         THEN <<Head(sorted)>> \o InsertDesc(Tail(sorted), e)
         ELSE <<e>> \o sorted

RECURSIVE SortDescFrom(_, _)
SortDescFrom(acc, rest) ==
    IF rest = <<>> THEN acc
    ELSE SortDescFrom(InsertDesc(acc, Head(rest)), Tail(rest))

SortDesc(list) == SortDescFrom(<<>>, list)

fuseScoreWeightedRRF(signals, weights, k) ==
    LET indexes == [n \in SignalSet |-> fusionBuildIndex(signals[n])]
        titleArray == CollectTitles(signals)
        results == [i \in DOMAIN titleArray |->
                        FuseTitle(titleArray[i], indexes, weights, k)]
    IN SortDesc(results)

\* ------------------------------------------------------------------------
\* Exploration injection and the propensity log (core/tracking.ts)
\* ------------------------------------------------------------------------

Min(x, y) == IF x < y THEN x ELSE y
Max(x, y) == IF x > y THEN x ELSE y

\* Array.prototype.slice(from, to) with zero-based bounds, 0 <= from.
Slice(list, from, to) == SubSeq(list, from + 1, Min(to, Len(list)))

\* metadata?.wasExploration === true
WasExploration(r) == "metadata" \in DOMAIN r /\ r.metadata.wasExploration

ExplorationEntryMutUnmarked(title) == [title |-> title, score |-> 0, signals |-> <<>>]

ExplorationEntry(title) ==
    [title |-> title, score |-> 0, signals |-> <<>>,
     metadata |-> [wasExploration |-> TRUE]]

\* Math.max(1, Math.floor(results.length * budget)), budget = num / den.
ReplaceCount(n, budget) == Max(1, (n * budget.num) \div budget.den)

\* allNotes.filter(n => !existingTitles.has(n))
Candidates(results, allNotes) ==
    LET existing == {results[i].title : i \in DOMAIN results}
    IN {allNotes[i] : i \in DOMAIN allNotes} \ existing

\* injectExploration; shuffled is the outcome of the Fisher-Yates shuffle
\* of the candidates.
injectExplorationMutNoFilter(results, allNotes, budget, shuffled) ==
    IF budget.num <= 0 \/ results = <<>> THEN results
    ELSE LET replaceCount == ReplaceCount(Len(results), budget)
             picks == Slice(allNotes, 0, replaceCount)
             keepCount == Len(results) - replaceCount
         IN Slice(results, 0, keepCount)
            \o [i \in DOMAIN picks |-> ExplorationEntry(picks[i])]
            \o (IF Len(picks) < replaceCount
                THEN Slice(results, keepCount, keepCount + (replaceCount - Len(picks)))
                ELSE <<>>)

injectExplorationMutNoPad(results, allNotes, budget, shuffled) ==
    IF budget.num <= 0 \/ results = <<>> THEN results
    ELSE LET replaceCount == ReplaceCount(Len(results), budget)
             picks == Slice(shuffled, 0, replaceCount)
             keepCount == Len(results) - replaceCount
         IN Slice(results, 0, keepCount)
            \o [i \in DOMAIN picks |-> ExplorationEntry(picks[i])]

injectExploration(results, allNotes, budget, shuffled) ==
    IF budget.num <= 0 \/ results = <<>> THEN results
    ELSE LET replaceCount == ReplaceCount(Len(results), budget)
             picks == Slice(shuffled, 0, replaceCount)
             keepCount == Len(results) - replaceCount
         IN Slice(results, 0, keepCount)
            \o [i \in DOMAIN picks |-> ExplorationEntry(picks[i])]
            \o (IF Len(picks) < replaceCount
                THEN Slice(results, keepCount, keepCount + (replaceCount - Len(picks)))
                ELSE <<>>)

\* The outcomes of the shuffle: every order of the candidates.
Shuffles(S) == {q \in InjSeqs(S) : Len(q) = Cardinality(S)}

\* The AccessEvent runQueryRanked builds (search.ts 156-167).
AccessEventMutDropTail(clock, query, intent, served) ==
    [timestamp |-> clock, query |-> query, intent |-> intent,
     results |-> [i \in 1 .. Len(served) - 1 |->
                    [title |-> served[i].title, rank |-> i - 1,
                     score |-> served[i].score, propensity |-> 0,
                     wasExploration |-> WasExploration(served[i])]]]

AccessEvent(clock, query, intent, served) ==
    [timestamp |-> clock, query |-> query, intent |-> intent,
     results |-> [i \in DOMAIN served |->
                    [title |-> served[i].title, rank |-> i - 1,
                     score |-> served[i].score, propensity |-> 0,
                     wasExploration |-> WasExploration(served[i])]]]

\* fs.appendFile of one JSON line.
logAccess(events, event) == Append(events, event)

\* ------------------------------------------------------------------------
\* The query pipeline (cli/search.ts)
\* ------------------------------------------------------------------------

CANDIDATE_MULTIPLIER == 5

\* buildIndex run from its start to its return.
RECURSIVE BuildLoop(_, _, _, _)
BuildLoop(b, corpus, rows, clock) ==
    IF b.i > Len(b.files) THEN [b |-> b, rows |-> rows]
    ELSE LET r == BuildIter(b, corpus, rows, clock)
         IN BuildLoop(r.b, corpus, r.rows, clock)

buildIndex(corpus, store, force, clock) ==
    LET r == BuildLoop(BuildBegin(corpus, store, force), corpus, store.rows, clock)
    IN [store |-> [exists |-> TRUE, rows |-> r.rows], stats |-> StatsOf(r.b)]

WarnNotFound == "Embedding index not found"
WarnEmpty == "Embedding index is empty"

\* Steps 6-7 of runQueryRanked and step 4 of runQuerySimilar: build the
\* index when the database file is missing, build it when the table has no
\* rows, then load the vectors.
EnsureIndexMutLoadFirst(corpus, store, clock) ==
    LET s1 == IF store.exists THEN store
              ELSE buildIndex(corpus, store, FALSE, clock + 1).store
        c1 == IF store.exists THEN clock ELSE clock + 1
        w1 == IF store.exists THEN <<>> ELSE <<WarnNotFound>>
        empty == DOMAIN s1.rows = {}
        s2 == IF empty THEN buildIndex(corpus, s1, FALSE, c1 + 1).store ELSE s1
    IN [store |-> s2,
        clock |-> IF empty THEN c1 + 1 ELSE c1,
        warnings |-> IF empty THEN Append(w1, WarnEmpty) ELSE w1,
        storedVectors |-> store.rows]

EnsureIndex(corpus, store, clock) ==
    LET s1 == IF store.exists THEN store
              ELSE buildIndex(corpus, store, FALSE, clock + 1).store
        c1 == IF store.exists THEN clock ELSE clock + 1
        w1 == IF store.exists THEN <<>> ELSE <<WarnNotFound>>
        empty == DOMAIN s1.rows = {}
        s2 == IF empty THEN buildIndex(corpus, s1, FALSE, c1 + 1).store ELSE s1
    IN [store |-> s2,
        clock |-> IF empty THEN c1 + 1 ELSE c1,
        warnings |-> IF empty THEN Append(w1, WarnEmpty) ELSE w1,
        storedVectors |-> s2.rows]

\* A signal's list: the scored titles, sorted descending, cut to the limit.
Scored(titleSeq, score) ==
    [i \in DOMAIN titleSeq |-> [title |-> titleSeq[i], score |-> score[titleSeq[i]]]]

\* searchComposite: one entry per stored row.
searchComposite(storedVectors, e, limit) ==
    Slice(SortDesc(Scored(FilesIn(TitleOrder, DOMAIN storedVectors), e.comp)), 0, limit)

\* tokenize: the words of a text; the empty text has none.
tokenize(text) == IF text = "" THEN <<>> ELSE <<text>>

\* searchBM25: nothing for a query without tokens, else the notes a query
\* token occurs in.
searchBM25(corpus, e, limit) ==
    IF Len(tokenize(e.query)) = 0 THEN <<>>
    ELSE Slice(SortDesc(Scored(FilesIn(TitleOrder, {t \in DOMAIN corpus : e.kw[t] > 0}),
                               e.kw)), 0, limit)

\* The nodes of buildGraphologyGraph in insertion order: the notes, then the
\* link targets that are no notes.
RECURSIVE AddNodes(_, _, _)
AddNodes(acc, files, corpus) ==
    IF files = <<>> THEN acc
    ELSE AddNodes(LinkSeq(acc, FileContent(corpus[Head(files)])), Tail(files), corpus)

GraphNodes(corpus) == AddNodes(listNoteTitles(corpus), listNoteTitles(corpus), corpus)

\* Signal 3: the personalized PageRank score of every node.
graphSignal(corpus, e, limit) ==
    Slice(SortDesc(Scored(GraphNodes(corpus), e.ppr)), 0, limit)

\* Steps 8-12 of runQueryRanked: three signals, fusion, trim.
Trimmed(corpus, storedVectors, e, weights, resultLimit) ==
    LET candidateLimit == resultLimit * CANDIDATE_MULTIPLIER
    IN Slice(fuseScoreWeightedRRF(
                [composite |-> searchComposite(storedVectors, e, candidateLimit),
                 keyword |-> searchBM25(corpus, e, candidateLimit),
                 graph |-> graphSignal(corpus, e, candidateLimit)],
                weights, RRF_K), 0, resultLimit)

NoEnv == [query |-> "", budget |-> [num |-> 0, den |-> 1],
          comp |-> <<>>, kw |-> <<>>, ppr |-> <<>>]

NoResp == [op |-> "none"]

\* ------------------------------------------------------------------------
\* Intent classification (core/schema.ts)
\* ------------------------------------------------------------------------

\* INTENT_PATTERNS: the pattern groups in table order. A query is taken by
\* the patterns it matches: query[intent] is the set of patterns of the
\* intent's group that test true on it.
INTENT_PATTERNS == <<"episodic", "procedural", "decision">>

\* patterns.filter((p) => p.test(query)).length
MatchCount(query, intent) == Cardinality(query[intent])

\* The loop of classifyIntent over the first n groups of the table.
RECURSIVE BestIntent(_, _)
BestIntent(query, n) ==
    IF n = 0 THEN [intent |-> "semantic", score |-> 0]
    ELSE LET best == BestIntent(query, n - 1)
             matchCount == MatchCount(query, INTENT_PATTERNS[n])
         IN IF matchCount > best.score
            THEN [intent |-> INTENT_PATTERNS[n], score |-> matchCount]
            ELSE best

\* classifyIntent: the intent and the confidence in tenths.
classifyIntent(query) ==
    LET best == BestIntent(query, Len(INTENT_PATTERNS))
    IN [intent |-> best.intent,
        confidence |-> IF best.score >= 2 THEN 10
                       ELSE IF best.score = 1 THEN 7 ELSE 5]

NoQuery == [i \in Range(INTENT_PATTERNS) |-> {}]
NoIntent == [intent |-> "semantic", confidence |-> 0]

ClassifyIdle ==
    /\ cin = NoQuery
    /\ cout = NoIntent
    /\ cdone = FALSE

\* ------------------------------------------------------------------------
\* Vitality (core/vitality.ts)
\* ------------------------------------------------------------------------

\* Numbers are doubles in the code and thousandths here, products rounded
\* down. NaN is the double that is no number: what getTime() gives for a
\* date string that is no date, and what every operation on it gives.
Scale == 1000
NaN == -1000000

IsNaN(x) == x = NaN
Times(x, y) == IF IsNaN(x) \/ IsNaN(y) THEN NaN ELSE (x * y) \div Scale
Plus(x, y) == IF IsNaN(x) \/ IsNaN(y) THEN NaN ELSE x + y
MathMax(x, y) == IF IsNaN(x) \/ IsNaN(y) THEN NaN ELSE Max(x, y)
MathMin(x, y) == IF IsNaN(x) \/ IsNaN(y) THEN NaN ELSE Min(x, y)

\* Math.exp(-tenths / 10), as the power of exp(-0.1) = 0.905.
RECURSIVE ExpNeg(_)
ExpNeg(tenths) ==
    IF tenths <= 0 THEN Scale ELSE Times(ExpNeg(tenths - 1), 905)

\* computeVitalityACTR with d = 0.5 on a note of age rootDays * rootDays:
\* B = ln(n / (1 - d)) - d * ln(L), so exp(B) = 2n / rootDays and the
\* sigmoid is 2n / (2n + rootDays). No comparison with NaN is true.
computeVitalityACTR(accessCount, rootDays) ==
    IF accessCount <= 0 THEN Scale \div 2
    ELSE IF ~IsNaN(rootDays) /\ rootDays <= 0 THEN Scale
    ELSE IF IsNaN(rootDays) THEN NaN
    ELSE (2 * accessCount * Scale) \div (2 * accessCount + rootDays)

computeStructuralBoost(inDegree) == Scale + (Scale \div 10) * Min(inDegree, 10)

\* daysSinceNewConnection below 0 stands for undefined as well.
computeRevivalBoost(daysSinceNewConnection) ==
    IF daysSinceNewConnection < 0 THEN 0
    ELSE IF daysSinceNewConnection >= 14 THEN 0
    ELSE ExpNeg(2 * daysSinceNewConnection)

\* computeAccessSaturation with k = 10.
computeAccessSaturation(accessCount) ==
    IF accessCount <= 0 THEN 0 ELSE Scale - ExpNeg(accessCount)

\* computeVitalityFull with the default decay and metabolic rate.
computeVitalityFull(params) ==
    LET base == computeVitalityACTR(params.accessCount, params.rootDays)
        boosted == Times(base, computeStructuralBoost(params.inDegree))
        saturation == computeAccessSaturation(params.accessCount)
        blended == Times(boosted, Scale \div 2 + saturation \div 2)
        revival == computeRevivalBoost(params.daysSinceNewConnection)
        revived == Plus(blended, Times(revival, Scale \div 5))
        floored == IF params.bridge THEN MathMax(revived, params.bridgeFloor)
                   ELSE revived
    IN MathMax(0, MathMin(Scale, floored))

\* bridgeFloor = 0.5 in the destructuring of computeVitalityFull.
DefaultBridgeFloor == Scale \div 2

\* The parameters computeAllVitality (query_ranked, query_similar) passes
\* for a note: the configured floor, no daysSinceNewConnection.
RankedParams(note, config) ==
    [accessCount |-> note.accessCount, rootDays |-> note.rootDays,
     inDegree |-> note.inDegree, bridge |-> note.bridge,
     daysSinceNewConnection |-> -1,
     bridgeFloor |-> config.bridge_vitality_floor]

\* The parameters runQueryFading passes: neither a floor nor
\* daysSinceNewConnection.
FadingParams(note, config) ==
    [accessCount |-> note.accessCount, rootDays |-> note.rootDays,
     inDegree |-> note.inDegree, bridge |-> note.bridge,
     daysSinceNewConnection |-> -1,
     bridgeFloor |-> DefaultBridgeFloor]

NoNote == [accessCount |-> 0, rootDays |-> 0, inDegree |-> 0, bridge |-> FALSE,
           daysSinceNewConnection |-> -1, bridge_vitality_floor |-> 0]

VitalityIdle ==
    /\ vin = NoNote
    /\ vop = "none"
    /\ vout = 0
    /\ vdone = FALSE

\* ------------------------------------------------------------------------
\* Bridge notes (core/importance.ts)
\* ------------------------------------------------------------------------

\* A graphology graph: its nodes in insertion order and its directed edges,
\* one per ordered pair, self-loops allowed.
GNodes(g) == Range(g.nodes)

\* forEachOutNeighbor then forEachInNeighbor into a Set: the out-neighbours,
\* then the in-neighbours that are not among them.
Neighbors(g, u) ==
    LET out == {v \in GNodes(g) : <<u, v>> \in g.edges}
        in == {v \in GNodes(g) : <<v, u>> \in g.edges}
    IN FilesIn(g.nodes, out) \o FilesIn(g.nodes, in \ out)

\* graph.inDegree(node): the edges into the node, its self-loop included.
GraphInDegree(g, node) == Cardinality({e \in g.edges : e[2] = node})

\* dfs(u) of findBridgeNotes and the loop over the neighbours of u.
RECURSIVE dfs(_, _, _)
RECURSIVE dfsLoop(_, _, _, _, _)
dfs(g, u, st) ==
    dfsLoop(g, u, Neighbors(g, u), 0,
            [st EXCEPT !.visited = @ \cup {u},
                       !.disc = (u :> st.timer) @@ @,
                       !.low = (u :> st.timer) @@ @,
                       !.timer = @ + 1])

dfsLoopMutNoRootTest(g, u, nbrs, children, st) ==
    IF nbrs = <<>> THEN st
    ELSE LET v == Head(nbrs)
         IN IF v \notin st.visited
            THEN LET st1 == dfs(g, v, [st EXCEPT !.parent = (v :> u) @@ @])
                     lowU == Min(st1.low[u], st1.low[v])
                     isPoint == st1.low[v] >= st1.disc[u]
                 IN dfsLoop(g, u, Tail(nbrs), children + 1,
                            [st1 EXCEPT !.low = (u :> lowU) @@ @,
                                        !.bridges = IF isPoint THEN @ \cup {u} ELSE @])
            ELSE IF v # st.parent[u]
            THEN dfsLoop(g, u, Tail(nbrs), children,
                         [st EXCEPT !.low = (u :> Min(st.low[u], st.disc[v])) @@ @])
            ELSE dfsLoop(g, u, Tail(nbrs), children, st)

dfsLoop(g, u, nbrs, children, st) ==
    IF nbrs = <<>> THEN st
    ELSE LET v == Head(nbrs)
         IN IF v \notin st.visited
            THEN LET st1 == dfs(g, v, [st EXCEPT !.parent = (v :> u) @@ @])
                     lowU == Min(st1.low[u], st1.low[v])
                     isRoot == st1.parent[u] = "null"
                     isPoint == \/ isRoot /\ children + 1 > 1
                                \/ ~isRoot /\ st1.low[v] >= st1.disc[u]
                 IN dfsLoop(g, u, Tail(nbrs), children + 1,
                            [st1 EXCEPT !.low = (u :> lowU) @@ @,
                                        !.bridges = IF isPoint THEN @ \cup {u} ELSE @])
            ELSE IF v # st.parent[u]
            THEN dfsLoop(g, u, Tail(nbrs), children,
                         [st EXCEPT !.low = (u :> Min(st.low[u], st.disc[v])) @@ @])
            ELSE dfsLoop(g, u, Tail(nbrs), children, st)

\* graph.forEachNode: a dfs from every node not yet visited.
RECURSIVE dfsRoots(_, _, _)
dfsRoots(g, nodes, st) ==
    IF nodes = <<>> THEN st
    ELSE IF Head(nodes) \in st.visited THEN dfsRoots(g, Tail(nodes), st)
    ELSE dfsRoots(g, Tail(nodes),
                  dfs(g, Head(nodes), [st EXCEPT !.parent = (Head(nodes) :> "null") @@ @]))

\* Part 1 of findBridgeNotes: the nodes the low-link DFS adds.
ArticulationPoints(g) ==
    dfsRoots(g, g.nodes, [visited |-> {}, disc |-> <<>>, low |-> <<>>,
                          parent |-> <<>>, timer |-> 0, bridges |-> {}]).bridges

\* inDegrees.sort((a, b) => a - b)
RECURSIVE InsertAsc(_, _)
InsertAsc(sorted, x) ==
    IF sorted = <<>> THEN <<x>>
    ELSE IF x < Head(sorted) THEN <<x>> \o sorted
    ELSE <<Head(sorted)>> \o InsertAsc(Tail(sorted), x)

RECURSIVE SortAsc(_)
SortAsc(list) ==
    IF list = <<>> THEN <<>> ELSE InsertAsc(SortAsc(Tail(list)), Head(list))

\* inDegrees[Math.floor(inDegrees.length / 2)], 0 for no node.
MedianInDegree(g) ==
    LET inDegrees == SortAsc([i \in DOMAIN g.nodes |-> GraphInDegree(g, g.nodes[i])])
    IN IF Len(inDegrees) > 0 THEN inDegrees[Len(inDegrees) \div 2 + 1] ELSE 0

HubsMutNone(g) == {}

\* Part 2: in-degree above twice the median, if that is above zero.
Hubs(g) ==
    LET hubThreshold == MedianInDegree(g) * 2
    IN {node \in GNodes(g) : GraphInDegree(g, node) > hubThreshold /\ hubThreshold > 0}

\* Part 3: the titles that end with " map", and "index".
IsMapTitle(node) == node = "index"
MapNotes(g) == {node \in GNodes(g) : IsMapTitle(node)}

\* Part 4: notes of two or more projects with in-degree 3 or more;
\* multiProject are the titles whose frontmatter lists two or more.
CrossProject(g, multiProject) ==
    {title \in multiProject : title \in GNodes(g) /\ GraphInDegree(g, title) >= 3}

findBridgeNotes(g, multiProject) ==
    ArticulationPoints(g) \cup Hubs(g) \cup MapNotes(g) \cup CrossProject(g, multiProject)

\* ------------------------------------------------------------------------
\* Piecewise-linear encoding (core/engine.ts)
\* ------------------------------------------------------------------------

\* value is the fraction num/den; the entries of the vector are in units of
\* 1/den, so den stands for 1.0.
encodePiecewiseLinearMutFullOwnBin(value, bins) ==
    LET v == Max(0, Min(value.den, value.num))
        scaled == v * bins
        binIndex == Min(scaled \div value.den, bins - 1)
    IN [i \in 1 .. bins |-> IF i - 1 <= binIndex THEN value.den ELSE 0]

encodePiecewiseLinear(value, bins) ==
    LET v == Max(0, Min(value.den, value.num))
        scaled == v * bins
        binIndex == Min(scaled \div value.den, bins - 1)
        frac == scaled - binIndex * value.den
        vec == [i \in 1 .. bins |->
                  IF i - 1 < binIndex THEN value.den
                  ELSE IF i - 1 = binIndex THEN frac
                  ELSE 0]
    IN IF v >= value.den THEN [i \in 1 .. bins |-> value.den] ELSE vec

\* ------------------------------------------------------------------------
\* Configuration (core/config.ts)
\* ------------------------------------------------------------------------

\* A value of the parsed YAML: its JavaScript type and its text.
Undefined == [kind |-> "undefined", v |-> ""]
Null == [kind |-> "null", v |-> ""]
Number(text) == [kind |-> "number", v |-> text]
String(text) == [kind |-> "string", v |-> text]

\* x ?? y takes y for these.
Nullish(x) == x.kind \in {"undefined", "null"}

\* !x is true for these.
Falsy(x) == Nullish(x) \/ x = Number("0") \/ x = String("")

\* The keys of the model and their defaults.
DEFAULT_CONFIG ==
    [vault_version |-> String("0.1"),
     templates_default |-> String("templates/note.md"),
     vitality_base |-> Number("1"),
     retrieval_rrf_k |-> Number("60"),
     retrieval_exploration_budget |-> Number("0.1")]

applyConfigDefaults(raw) ==
    [key \in DOMAIN DEFAULT_CONFIG |->
        IF Nullish(raw[key]) THEN DEFAULT_CONFIG[key] ELSE raw[key]]

validateConfig(config) ==
    (IF Falsy(config.vault_version) THEN <<"vault.version is required">> ELSE <<>>)
    \o (IF Falsy(config.templates_default)
        THEN <<"templates.default is required">> ELSE <<>>)
    \o (IF config.vitality_base.kind # "number"
        THEN <<"vitality.base must be a number">> ELSE <<>>)

\* loadConfig: the configuration, or the error thrown. A missing file is
\* the empty configuration, taken without validation.
loadConfig(file) ==
    IF ~file.exists
    THEN [ok |-> TRUE, errors |-> <<>>,
          config |-> applyConfigDefaults([key \in DOMAIN DEFAULT_CONFIG |-> Undefined])]
    ELSE LET config == applyConfigDefaults(file.raw)
             errors == validateConfig(config)
         IN [ok |-> errors = <<>>, errors |-> errors, config |-> config]

\* ------------------------------------------------------------------------
\* Propensity (core/tracking.ts)
\* ------------------------------------------------------------------------

\* Propensities and epsilon are fractions num/den, compared exactly.
Frac(num, den) == [num |-> num, den |-> den]
FracLeq(x, y) == x.num * y.den <= y.num * x.den
FracEq(x, y) == x.num * y.den = y.num * x.den
FracMax(x, y) == IF FracLeq(y, x) THEN x ELSE y

\* event.results.some((r) => r.title === title)
Lists(event, title) == \E i \in DOMAIN event.results : event.results[i].title = title

computePropensityMutNoFloor(title, events, epsilon) ==
    IF Len(events) = 0 THEN epsilon
    ELSE LET surfaced == Cardinality({i \in DOMAIN events : Lists(events[i], title)})
         IN IF surfaced = 0 THEN epsilon
            ELSE Frac(surfaced, Len(events))

computePropensity(title, events, epsilon) ==
    IF Len(events) = 0 THEN epsilon
    ELSE LET surfaced == Cardinality({i \in DOMAIN events : Lists(events[i], title)})
         IN IF surfaced = 0 THEN epsilon
            ELSE FracMax(Frac(surfaced, Len(events)), epsilon)

\* counts.get(title) after the loop over all results of all events: one for
\* each result entry with the title, 0 for a title never met.
RECURSIVE Counts(_, _)
Counts(events, title) ==
    IF events = <<>> THEN 0
    ELSE Cardinality({i \in DOMAIN Head(events).results :
                        Head(events).results[i].title = title})
         + Counts(Tail(events), title)

\* The Map returned, as a function on the titles of allNotes.
buildPropensityMap(events, allNotes, epsilon) ==
    LET total == Len(events)
    IN [note \in Range(allNotes) |->
          IF total = 0 THEN epsilon
          ELSE FracMax(Frac(Counts(events, note), total), epsilon)]

\* ------------------------------------------------------------------------
\* The directory lock (agents/lock.ts)
\* ------------------------------------------------------------------------

\* The callers that run concurrently, and the lock names they use.
MaxCallers == 3
Callers == 1 .. MaxCallers
LockNames == {"vault", "index"}

\* path.join(root, `.ori-lock-${name}`), for the one root.
lockDir(name) == <<".ori-lock-", name>>

\* fs.mkdir(dir, { recursive: true }): succeeds on an existing directory.
mkdirMutRecursive(dirs, d) == [ok |-> TRUE, dirs |-> dirs \cup {d}]

\* fs.mkdir(dir, { recursive: false }): one system call, which fails with
\* EEXIST when the directory exists.
mkdir(dirs, d) == [ok |-> d \notin dirs, dirs |-> dirs \cup {d}]

\* fs.rmdir(dir): fails with ENOENT when the directory does not exist.
rmdir(dirs, d) == [ok |-> d \in dirs, dirs |-> dirs \ {d}]

\* A caller is outside the lock code ("idle"), has called acquireLock and
\* awaits mkdir ("mkdir"), holds the returned lockDir ("holding"), has
\* called releaseLock and awaits rmdir ("rmdir"), or has the rejection of
\* its call in hand ("failed").
Agent(pc, name) == [pc |-> pc, name |-> name]
NoAgent == Agent("idle", "")

LockIdle ==
    /\ locks = {}
    /\ agents = [c \in Callers |-> NoAgent]

\* ------------------------------------------------------------------------
\* The BM25 index and its scores (core/bm25.ts)
\* ------------------------------------------------------------------------

\* A document is its title and the tokens tokenize returns for its title,
\* description and body. Boosts are integers, k1 and b are fractions. The
\* score of a term in a document is in thousandths, rounded down.

Occurrences(tokens, t) == Cardinality({i \in DOMAIN tokens : tokens[i] = t})

\* The weighted token bag of a document.
Bag(doc, config) ==
    [t \in Range(doc.titleTokens) \cup Range(doc.descTokens) \cup Range(doc.bodyTokens) |->
        config.title_boost * Occurrences(doc.titleTokens, t)
        + config.description_boost * Occurrences(doc.descTokens, t)
        + Occurrences(doc.bodyTokens, t)]

\* docs[i].title in document order (the insertion order of the Maps).
DocTitles(docs) == [i \in DOMAIN docs |-> docs[i].title]

buildBM25Index(docs, config) ==
    LET bag == [i \in DOMAIN docs |-> Bag(docs[i], config)]
        docLengths == [i \in DOMAIN docs |-> SumOver(DOMAIN bag[i], bag[i])]
        terms == UNION {DOMAIN bag[i] : i \in DOMAIN docs}
        at(title) == CHOOSE i \in DOMAIN docs : docs[i].title = title
    IN [termFreqs |-> [term \in terms |->
                         [title \in {docs[i].title : i \in {j \in DOMAIN docs : term \in DOMAIN bag[j]}}
                            |-> bag[at(title)][term]]],
        docLengths |-> [title \in Range(DocTitles(docs)) |-> docLengths[at(title)]],
        totalLength |-> SumOver(DOMAIN docs, docLengths),
        docCount |-> Len(docs),
        titles |-> DocTitles(docs)]

\* Math.log((N - n + 0.5) / (n + 0.5) + 1) in thousandths, for N <= 4.
Idf(N, n) ==
    <<<<288>>, <<693, 182>>, <<981, 470, 134>>, <<1204, 693, 357, 105>>>>[N][n]

TermScoreMutNoTf(term, title, index, config) ==
    LET docMap == index.termFreqs[term]
        tf == docMap[title]
        dl == index.docLengths[title]
        N == index.docCount
        k1 == config.k1
        b == config.b
    IN (Idf(N, Cardinality(DOMAIN docMap))
          * (k1.num + k1.den) * b.den * index.totalLength)
       \div (tf * k1.den * b.den * index.totalLength
               + k1.num * ((b.den - b.num) * index.totalLength + b.num * dl * N))

\* idf * tfNorm of one term in one document, with
\* tfNorm = tf (k1 + 1) / (tf + k1 (1 - b + b dl / avgDocLength)) and
\* avgDocLength = totalLength / docCount.
TermScore(term, title, index, config) ==
    LET docMap == index.termFreqs[term]
        tf == docMap[title]
        dl == index.docLengths[title]
        N == index.docCount
        k1 == config.k1
        b == config.b
    IN (Idf(N, Cardinality(DOMAIN docMap))
          * tf * (k1.num + k1.den) * b.den * index.totalLength)
       \div (tf * k1.den * b.den * index.totalLength
               + k1.num * ((b.den - b.num) * index.totalLength + b.num * dl * N))

\* The scores Map after the loop over the query tokens: its keys in
\* insertion order, and the score of each key.
RECURSIVE ScoreLoop(_, _, _, _)
ScoreLoop(queryTokens, index, config, scores) ==
    IF queryTokens = <<>> THEN scores
    ELSE LET term == Head(queryTokens)
             hit == IF term \in DOMAIN index.termFreqs
                    THEN DOMAIN index.termFreqs[term] ELSE {}
             keys == scores.keys \o FilesIn(index.titles, hit \ Range(scores.keys))
             of == [title \in Range(keys) |->
                      LET old == IF title \in Range(scores.keys)
                                 THEN scores.of[title] ELSE 0
                      IN IF title \in hit
                         THEN old + TermScore(term, title, index, config)
                         ELSE old]
         IN ScoreLoop(Tail(queryTokens), index, config, [keys |-> keys, of |-> of])

\* searchBM25 on an index, the query given as its tokens.
searchBM25Index(queryTokens, index, config, limit) ==
    IF Len(queryTokens) = 0 THEN <<>>
    ELSE LET scores == ScoreLoop(queryTokens, index, config, [keys |-> <<>>, of |-> <<>>])
             results == [i \in DOMAIN scores.keys |->
                           [title |-> scores.keys[i], score |-> scores.of[scores.keys[i]]]]
         IN Slice(SortDesc(results), 0, limit)

\* ------------------------------------------------------------------------
\* The vault: corpus changes and index builds
\* ------------------------------------------------------------------------

MaxClock == 3

\* The note files the capture side writes in the model.
EditFiles ==
    {[description |-> <<>>, body |-> <<>>],
     [description |-> <<>>, body |-> <<Link("b")>>]}

CallIdle ==
    /\ pin = <<>>
    /\ pout = <<>>
    /\ pdone = FALSE
    /\ LockIdle

PureIdle ==
    /\ graph = EmptyGraph
    /\ gdone = FALSE
    /\ fin = [signals |-> [composite |-> <<>>, keyword |-> <<>>, graph |-> <<>>],
              weights |-> DefaultWeights]
    /\ fout = <<>>
    /\ fdone = FALSE
    /\ ClassifyIdle
    /\ VitalityIdle
    /\ CallIdle

IndexIdle ==
    /\ db = NoDB
    /\ now = 0
    /\ build = Idle
    /\ hist = Hist("fresh")
    /\ last = NoStats

QueryIdle ==
    /\ env = NoEnv
    /\ log = <<>>
    /\ resp = NoResp

Init ==
    /\ notes = <<>>
    /\ dir = TRUE
    /\ IndexIdle
    /\ PureIdle
    /\ QueryIdle

\* The corpus is written by the capture side, between the core's calls.
\* A change of the corpus follows the last completed build: one change of
\* one body is remembered as such, anything more is "other".
AfterChange(bodyOnly, t) ==
    IF hist.kind = "fresh" THEN hist
    ELSE IF hist.kind = "none" /\ bodyOnly THEN HistBodyEdit(t)
    ELSE Hist("other")

CreateNote(t, f) ==
    /\ build.pc = "idle"
    /\ dir
    /\ t \notin DOMAIN notes
    /\ notes' = [u \in DOMAIN notes \cup {t} |-> IF u = t THEN f ELSE notes[u]]
    /\ hist' = AfterChange(FALSE, t)
    /\ resp' = NoResp
    /\ last' = NoStats
    /\ UNCHANGED <<dir, db, now, build, env, log, pureVars>>

EditNote(t, f) ==
    /\ build.pc = "idle"
    /\ t \in DOMAIN notes
    /\ f # notes[t]
    /\ notes' = [notes EXCEPT ![t] = f]
    /\ hist' = AfterChange(f.description = notes[t].description, t)
    /\ resp' = NoResp
    /\ last' = NoStats
    /\ UNCHANGED <<dir, db, now, build, env, log, pureVars>>

DeleteNote(t) ==
    /\ build.pc = "idle"
    /\ t \in DOMAIN notes
    /\ notes' = [u \in DOMAIN notes \ {t} |-> notes[u]]
    /\ hist' = AfterChange(FALSE, t)
    /\ resp' = NoResp
    /\ last' = NoStats
    /\ UNCHANGED <<dir, db, now, build, env, log, pureVars>>

\* The embedding database file is removed from outside.
DeleteDB ==
    /\ build.pc = "idle"
    /\ db.exists
    /\ db' = NoDB
    /\ hist' = AfterChange(FALSE, "a")
    /\ resp' = NoResp
    /\ last' = NoStats
    /\ UNCHANGED <<notes, dir, now, build, env, log, pureVars>>

\* index_build(force): buildIndex up to its loop.
BuildStart(force) ==
    /\ build.pc = "idle"
    /\ now < MaxClock
    /\ now' = now + 1
    /\ db' = [db EXCEPT !.exists = TRUE]
    /\ build' = BuildBegin(notes, db, force)
    /\ resp' = NoResp
    /\ last' = NoStats
    /\ UNCHANGED <<notes, dir, hist, env, log, pureVars>>

\* One note of the loop: skipped, or embedded and committed in one upsert.
BuildStep ==
    /\ build.pc = "loop"
    /\ build.i <= Len(build.files)
    /\ LET r == BuildIter(build, notes, db.rows, now)
       IN /\ build' = r.b
          /\ db' = [db EXCEPT !.rows = r.rows]
    /\ UNCHANGED <<resp, notes, dir, now, hist, last, env, log, pureVars>>

\* The loop is over: the store is closed and the statistics are returned.
BuildFinish ==
    /\ build.pc = "loop"
    /\ build.i > Len(build.files)
    /\ last' = [valid |-> TRUE, indexed |-> build.indexed, skipped |-> build.skipped,
                total |-> Len(build.files), force |-> build.force,
                rows0 |-> build.rows0, hist |-> hist]
    /\ hist' = Hist("none")
    /\ build' = Idle
    /\ UNCHANGED <<resp, notes, dir, db, now, env, log, pureVars>>

\* The process dies during the loop: the rows committed so far stay.
Interrupt ==
    /\ build.pc = "loop"
    /\ build.i <= Len(build.files)
    /\ hist' = HistInterrupt(build.force)
    /\ build' = Idle
    /\ UNCHANGED <<resp, notes, dir, db, now, last, env, log, pureVars>>

\* query_dangling: the graph is built from the files at the call.
QueryDangling ==
    /\ build.pc = "idle"
    /\ resp' = [op |-> "dangling", success |-> TRUE,
                dangling |-> findDanglingLinks(buildGraph(notes), listNoteTitles(notes)),
                warnings |-> <<>>]
    /\ last' = NoStats
    /\ UNCHANGED <<notes, dir, db, now, build, hist, env, log, pureVars>>

Next ==
    \/ \E t \in Titles : \E f \in EditFiles : CreateNote(t, f)
    \/ \E t \in Titles : \E f \in EditFiles : EditNote(t, f)
    \/ \E t \in Titles : DeleteNote(t)
    \/ DeleteDB
    \/ \E force \in BOOLEAN : BuildStart(force)
    \/ BuildStep
    \/ BuildFinish
    \/ Interrupt
    \/ QueryDangling

Spec == Init /\ [][Next]_vars

\* ------------------------------------------------------------------------
\* Queries against the vault (checked under SpecQuery)
\* ------------------------------------------------------------------------

MaxLimit == 2
MaxLog == 2

\* exploration_budget as a fraction; 1/10 is the default.
Budgets == {[num |-> 1, den |-> 10], [num |-> 1, den |-> 1]}

\* The query's scores: pure functions of the query and the note, drawn once.
\* Composite scores can be negative, keyword score 0 means no token matches.
CompScores ==
    {[t \in Titles |-> 1],
     [t \in Titles |-> CASE t = "a" -> 2 [] t = "b" -> 1 [] OTHER -> -1]}
KeywordScores ==
    {[t \in Titles |-> 0],
     [t \in Titles |-> CASE t = "a" -> 0 [] t = "b" -> 1 [] OTHER -> 2]}
GraphScores ==
    {[t \in Titles |-> 1],
     [t \in Titles |-> CASE t = "a" -> 1 [] t = "b" -> 3 [] OTHER -> 2]}

TheQuery == "q"
TheIntent == "semantic"

\* The calls' query, what the three signals make of it, and the exploration
\* budget of the configuration file: a query with distinct scores in every
\* signal under the full budget, and the empty string, which has no entity
\* and ties all notes, under the small one. The keyword scores are those
\* the index would give if searchBM25 looked at it.
QueryEnvs ==
    {e \in [query : {"", TheQuery}, budget : Budgets, comp : CompScores,
            kw : KeywordScores, ppr : GraphScores] :
        LET tied == [t \in Titles |-> 1]
            none == [t \in Titles |-> 0]
        IN /\ e.kw # none
           /\ (e.query = "") = (e.comp = tied)
           /\ (e.query = "") = (e.ppr = tied)
           /\ (e.query = "") = (e.budget.num < e.budget.den)}

\* A vault of three notes, or one without the directory notes/; its index
\* was never built, or was built while the vault was still empty.
InitialCorpus ==
    [t \in Titles |-> IF t = "a" THEN [description |-> <<>>, body |-> <<Link("b")>>]
                      ELSE [description |-> <<>>, body |-> <<>>]]

InitQuery ==
    /\ dir \in BOOLEAN
    /\ notes = IF dir THEN InitialCorpus ELSE <<>>
    /\ db \in {NoDB, [exists |-> TRUE, rows |-> <<>>]}
    /\ now = 0
    /\ build = Idle
    /\ hist = Hist("fresh")
    /\ last = NoStats
    /\ env \in QueryEnvs
    /\ log = <<>>
    /\ resp = NoResp
    /\ PureIdle

\* What the handler found when it looked for the index.
Entry(store) ==
    IF ~store.exists THEN "missing"
    ELSE IF DOMAIN store.rows = {} THEN "empty" ELSE "ready"

\* What the caller gets when the handler's promise rejects.
Rejected(call, cause) == [op |-> "error", call |-> call, cause |-> cause]

\* The store after a handler whose embedText calls throw: the database file
\* is created by initDB, and no row is written, since the first indexNote of
\* a cold-start build throws before its upsert.
EmbedFailedStore(store) == [store EXCEPT !.exists = TRUE]

\* query_ranked(query, limit); budget is the exploration budget of the
\* configuration file, shuffled the outcome of the shuffle
\* inside injectExploration, embedOk whether the embedding model answers,
\* appendOk whether mkdir and appendFile of logAccess succeed. searchComposite,
\* buildBM25IndexFromVault and logAccess are awaited outside any try block:
\* when one throws, the handler throws. buildBM25IndexFromVault reads the
\* directory notes/ and throws when there is none.
QueryRanked(limit) ==
    /\ build.pc = "idle"
    /\ \E embedOk \in BOOLEAN :
        IF ~embedOk
        THEN /\ db' = EmbedFailedStore(db)
             /\ resp' = Rejected("ranked", "embedText")
             /\ UNCHANGED <<now, log>>
        ELSE
           \E allTitles \in {listNoteTitles(notes)} :
           \E ix \in {EnsureIndex(notes, db, now)} :
           IF ~dir
           THEN /\ ix.clock <= MaxClock
                /\ db' = ix.store
                /\ now' = ix.clock
                /\ log' = log
                /\ resp' = Rejected("ranked", "readdir")
           ELSE
           \E trimmed \in {Trimmed(notes, ix.storedVectors, env, DefaultWeights, limit)} :
           \E budget \in {env.budget} :
           \E shuffled \in Shuffles(Candidates(trimmed, allTitles)) :
           \E withExploration \in {injectExploration(trimmed, allTitles, budget, shuffled)} :
           \E appendOk \in BOOLEAN :
              /\ ix.clock <= MaxClock
              /\ db' = ix.store
              /\ now' = ix.clock
              /\ IF appendOk
                 THEN /\ Len(log) < MaxLog
                      /\ log' = logAccess(log, AccessEvent(now, env.query, TheIntent,
                                                           withExploration))
                      /\ resp' = [op |-> "ranked", success |-> TRUE,
                                  results |-> withExploration,
                                  warnings |-> ix.warnings, entry |-> Entry(db),
                                  vectors |-> DOMAIN ix.storedVectors,
                                  trimmed |-> trimmed,
                                  limit |-> limit, budget |-> budget]
                 ELSE /\ log' = log
                      /\ resp' = Rejected("ranked", "logAccess")
    /\ UNCHANGED <<notes, dir, build, hist, last, env, pureVars>>

\* query_similar(query, limit): the composite search alone, nothing logged.
QuerySimilar(limit) ==
    /\ build.pc = "idle"
    /\ \E embedOk \in BOOLEAN :
        IF ~embedOk
        THEN /\ db' = EmbedFailedStore(db)
             /\ resp' = Rejected("similar", "embedText")
             /\ UNCHANGED now
        ELSE
           \E ix \in {EnsureIndex(notes, db, now)} :
           \E results \in {searchComposite(ix.storedVectors, env, limit)} :
              /\ ix.clock <= MaxClock
              /\ db' = ix.store
              /\ now' = ix.clock
              /\ resp' = [op |-> "similar", success |-> TRUE, results |-> results,
                          warnings |-> ix.warnings, entry |-> Entry(db),
                          vectors |-> DOMAIN ix.storedVectors, trimmed |-> results,
                          limit |-> limit, budget |-> [num |-> 0, den |-> 1]]
    /\ UNCHANGED <<notes, dir, build, hist, last, env, log, pureVars>>

NextQuery ==
    \/ \E limit \in 1 .. MaxLimit : QueryRanked(limit)
    \/ \E limit \in 1 .. MaxLimit : QuerySimilar(limit)
    \/ \E t \in Titles : DeleteNote(t)

SpecQuery == InitQuery /\ [][NextQuery]_vars

\* ------------------------------------------------------------------------
\* The core operations on one vault (cli/query.ts, cli/search.ts)
\* ------------------------------------------------------------------------

\* graph.ts 48-50 and 65-67.
findOrphans(g, allNotes) == SelectSeq(allNotes, LAMBDA note : note \notin DOMAIN g.incoming)

findBacklinks(g, note) ==
    SortTitles(IF note \in DOMAIN g.incoming THEN g.incoming[note] ELSE {})

\* pagerankScores.get(title) ?? 0, sorted descending, cut to the limit.
rankByImportance(allNotes, pagerankScores, limit) ==
    Slice(SortDesc(Scored(allNotes, pagerankScores)), 0, limit)

\* The notes below the threshold, sorted ascending (a stable descending
\* sort of the negated scores).
rankByFading(allNotes, vitalityScores, threshold) ==
    LET fading == SelectSeq(allNotes, LAMBDA t : /\ ~IsNaN(vitalityScores[t])
                                                  /\ vitalityScores[t] < threshold)
        sorted == SortDesc(Scored(fading, [t \in Range(fading) |-> 0 - vitalityScores[t]]))
    IN [i \in DOMAIN sorted |-> [title |-> sorted[i].title, score |-> 0 - sorted[i].score]]

\* buildGraphologyGraph: the nodes and directed edges of a LinkGraph.
buildGraphologyGraph(corpus, g) ==
    [nodes |-> GraphNodes(corpus),
     edges |-> UNION {{<<t, target>> : target \in g.outgoing[t]} : t \in DOMAIN g.outgoing}]

\* The vitality runQueryFading gives a note whose header has neither
\* access_count nor created: no access, created today.
FadingVitality(corpus, g, title) ==
    computeVitalityFull(FadingParams(
        [accessCount |-> 0, rootDays |-> 0, inDegree |-> InDegree(g, title),
         bridge |-> title \in findBridgeNotes(buildGraphologyGraph(corpus, g), {})],
        <<>>))

\* A read-only query returns its data.
Answer(result) ==
    /\ build.pc = "idle"
    /\ resp' = result
    /\ last' = NoStats
    /\ UNCHANGED <<notes, dir, db, now, build, hist, env, log, pureVars>>

QueryOrphans ==
    Answer([op |-> "orphans", success |-> TRUE,
            orphans |-> findOrphans(buildGraph(notes), listNoteTitles(notes)),
            warnings |-> <<>>])

QueryBacklinks(note) ==
    Answer([op |-> "backlinks", success |-> TRUE,
            backlinks |-> findBacklinks(buildGraph(notes), note), warnings |-> <<>>])

\* query_important: the PageRank values are those of the environment's
\* graph walk.
QueryImportant(limit) ==
    Answer([op |-> "important", success |-> TRUE,
            results |-> rankByImportance(listNoteTitles(notes), env.ppr, limit),
            warnings |-> <<>>])

QueryFadingMutWritesBack(limit) ==
    /\ build.pc = "idle"
    /\ "a" \in DOMAIN notes
    /\ notes' = [notes EXCEPT !["a"] = [description |-> <<>>, body |-> <<>>]]
    /\ resp' = [op |-> "fading", success |-> TRUE, results |-> <<>>, warnings |-> <<>>]
    /\ last' = NoStats
    /\ UNCHANGED <<dir, db, now, build, hist, env, log, pureVars>>

\* query_fading with the default threshold 0.3.
QueryFading(limit) ==
    \E g \in {buildGraph(notes)} :
    \E vitalityScores \in {[t \in DOMAIN notes |-> FadingVitality(notes, g, t)]} :
        Answer([op |-> "fading", success |-> TRUE,
                results |-> Slice(rankByFading(listNoteTitles(notes), vitalityScores,
                                               (3 * Scale) \div 10), 0, limit),
                warnings |-> <<>>])

\* A vault of three notes and the eight core operations on it, the ranked
\* queries with limit 1 and the default exploration budget.
InitCore ==
    /\ InitQuery
    /\ dir
    /\ env.budget = [num |-> 1, den |-> 10]

NextCore ==
    \/ QueryRanked(1)
    \/ QuerySimilar(1)
    \/ \E limit \in 1 .. MaxLimit : QueryImportant(limit)
    \/ \E limit \in 1 .. MaxLimit : QueryFading(limit)
    \/ QueryOrphans
    \/ QueryDangling
    \/ \E note \in Titles : QueryBacklinks(note)
    \/ \E force \in BOOLEAN : BuildStart(force)
    \/ BuildStep
    \/ BuildFinish

SpecCore == InitCore /\ [][NextCore]_vars

\* ------------------------------------------------------------------------
\* Inputs of the graph specification
\* ------------------------------------------------------------------------

MaxBodyLen == 1

RECURSIVE SeqsUpTo(_, _)
SeqsUpTo(S, n) ==
    IF n = 0 THEN {<<>>}
    ELSE LET shorter == SeqsUpTo(S, n - 1)
         IN shorter \cup {Append(q, x) : q \in shorter, x \in S}

GraphTokens == {Link("a"), Link("b"), Link("c"), Link(" a"), Link(" ")}

GraphFiles ==
    [description : {<<>>, <<Link("b")>>}, body : SeqsUpTo(GraphTokens, MaxBodyLen)]

Corpora(files) == UNION {[present -> files] : present \in SUBSET Titles}

InitGraph ==
    /\ notes \in Corpora(GraphFiles)
    /\ dir = TRUE
    /\ IndexIdle
    /\ PureIdle
    /\ QueryIdle

RunBuildGraph ==
    /\ ~gdone
    /\ graph' = buildGraph(notes)
    /\ gdone' = TRUE
    /\ UNCHANGED <<notes, dir, indexVars, queryVars, fusionVars, classifyVars,
                   vitalityVars, callVars>>

NextGraph == RunBuildGraph

SpecGraph == InitGraph /\ [][NextGraph]_vars

\* ------------------------------------------------------------------------
\* Inputs of the fusion specification
\* ------------------------------------------------------------------------

MaxScore == 1

\* The lists a signal producer can hand over: distinct titles, ordered by raw
\* score descending (each producer sorts before it slices).
ScoredLists(titleSeqs, scores) ==
    UNION {{l \in [DOMAIN ts -> scores] :
                \A i \in DOMAIN l : \A j \in DOMAIN l : i < j => l[i] >= l[j]}
            \X {ts} : ts \in titleSeqs}

MkList(p) == [i \in DOMAIN p[2] |-> [title |-> p[2][i], score |-> p[1][i]]]

\* Title names are interchangeable, so the composite list is drawn with its
\* titles in alphabetical order; the other two lists take every order.
\* Composite scores are weighted sums of cosines and can be zero or negative;
\* the keyword and graph scores drawn are positive.
CompositeLists ==
    {MkList(p) : p \in ScoredLists({<<>>, <<"a">>, <<"a", "b">>, <<"a", "b", "c">>},
                                   -1 .. MaxScore)}
KeywordLists == {MkList(p) : p \in ScoredLists(InjSeqs(Titles), 1 .. MaxScore)}
GraphLists == {MkList(p) : p \in ScoredLists(InjSeqs(Titles), 1 .. MaxScore)}

WeightChoices ==
    {DefaultWeights,
     [composite |-> 0, keyword |-> 2, graph |-> 2],
     [composite |-> 4, keyword |-> 2, graph |-> 0]}

InitFusion ==
    /\ fin \in [signals : [composite : CompositeLists,
                           keyword : KeywordLists,
                           graph : GraphLists],
                weights : WeightChoices]
    /\ fout = <<>>
    /\ fdone = FALSE
    /\ notes = <<>>
    /\ dir = TRUE
    /\ IndexIdle
    /\ graph = EmptyGraph
    /\ gdone = FALSE
    /\ QueryIdle
    /\ ClassifyIdle
    /\ VitalityIdle
    /\ CallIdle

Fuse ==
    /\ ~fdone
    /\ fout' = fuseScoreWeightedRRF(fin.signals, fin.weights, RRF_K)
    /\ fdone' = TRUE
    /\ UNCHANGED <<fin, notes, dir, indexVars, queryVars, graphVars, classifyVars,
                   vitalityVars, callVars>>

NextFusion == Fuse

SpecFusion == InitFusion /\ [][NextFusion]_vars

\* ------------------------------------------------------------------------
\* Inputs of the intent specification
\* ------------------------------------------------------------------------

\* The patterns of a group that the queries of the model can match: the
\* first MaxPattern of each.
MaxPattern == 2

InitClassify ==
    /\ cin \in [Range(INTENT_PATTERNS) -> SUBSET (1 .. MaxPattern)]
    /\ cout = NoIntent
    /\ cdone = FALSE
    /\ notes = <<>>
    /\ dir = TRUE
    /\ IndexIdle
    /\ QueryIdle
    /\ graph = EmptyGraph
    /\ gdone = FALSE
    /\ fin = [signals |-> [composite |-> <<>>, keyword |-> <<>>, graph |-> <<>>],
              weights |-> DefaultWeights]
    /\ fout = <<>>
    /\ fdone = FALSE
    /\ VitalityIdle
    /\ CallIdle

Classify ==
    /\ ~cdone
    /\ cout' = classifyIntent(cin)
    /\ cdone' = TRUE
    /\ UNCHANGED <<cin, notes, dir, indexVars, queryVars, graphVars, fusionVars,
                   vitalityVars, callVars>>

NextClassify == Classify

SpecClassify == InitClassify /\ [][NextClassify]_vars

\* ------------------------------------------------------------------------
\* Inputs of the vitality specification
\* ------------------------------------------------------------------------

MaxAccess == 2
MaxRootDays == 2
MaxInDegree == 10
MaxConnectionDays == 14

\* graph.bridge_vitality_floor of the configuration file: the default and a
\* higher one.
ConfiguredFloors == {Scale \div 2, (4 * Scale) \div 5}

\* A note (its access_count, the age its created string gives, NaN for a
\* string that is no date, its in-degree and whether it is a bridge), the
\* daysSinceNewConnection of a direct call, and the configured floor.
InitVitality ==
    /\ vin \in [accessCount : 0 .. MaxAccess,
                 rootDays : (0 .. MaxRootDays) \cup {NaN},
                 inDegree : {0, 1, MaxInDegree},
                 bridge : BOOLEAN,
                 daysSinceNewConnection : {-1, 0, MaxConnectionDays \div 2,
                                           MaxConnectionDays},
                 bridge_vitality_floor : ConfiguredFloors]
    /\ vop = "none"
    /\ vout = 0
    /\ vdone = FALSE
    /\ notes = <<>>
    /\ dir = TRUE
    /\ IndexIdle
    /\ QueryIdle
    /\ graph = EmptyGraph
    /\ gdone = FALSE
    /\ fin = [signals |-> [composite |-> <<>>, keyword |-> <<>>, graph |-> <<>>],
              weights |-> DefaultWeights]
    /\ fout = <<>>
    /\ fdone = FALSE
    /\ ClassifyIdle
    /\ CallIdle

Returned(op, score) ==
    /\ ~vdone
    /\ vop' = op
    /\ vout' = score
    /\ vdone' = TRUE
    /\ UNCHANGED <<vin, notes, dir, indexVars, queryVars, graphVars, fusionVars,
                   classifyVars, callVars>>

\* computeVitalityFull called with the note, its daysSinceNewConnection and
\* the configured floor.
VitalityFull ==
    Returned("computeVitalityFull",
             computeVitalityFull([RankedParams(vin, vin) EXCEPT
                 !.daysSinceNewConnection = vin.daysSinceNewConnection]))

\* The score of the note in query_ranked and query_similar.
VitalityRanked == Returned("query_ranked", computeVitalityFull(RankedParams(vin, vin)))
VitalitySimilar == Returned("query_similar", computeVitalityFull(RankedParams(vin, vin)))

\* The score of the note in query_fading.
VitalityFading == Returned("query_fading", computeVitalityFull(FadingParams(vin, vin)))

NextVitality ==
    \/ VitalityFull
    \/ VitalityRanked
    \/ VitalitySimilar
    \/ VitalityFading

SpecVitality == InitVitality /\ [][NextVitality]_vars

\* ------------------------------------------------------------------------
\* Inputs of the specifications of one call
\* ------------------------------------------------------------------------

\* Everything but the call is as after construction.
OthersIdle ==
    /\ notes = <<>>
    /\ dir = TRUE
    /\ IndexIdle
    /\ QueryIdle
    /\ graph = EmptyGraph
    /\ gdone = FALSE
    /\ fin = [signals |-> [composite |-> <<>>, keyword |-> <<>>, graph |-> <<>>],
              weights |-> DefaultWeights]
    /\ fout = <<>>
    /\ fdone = FALSE
    /\ ClassifyIdle
    /\ VitalityIdle

\* The call returns value.
Return(value) ==
    /\ ~pdone
    /\ pout' = value
    /\ pdone' = TRUE
    /\ UNCHANGED <<pin, notes, dir, indexVars, queryVars, graphVars, fusionVars,
                   classifyVars, vitalityVars, lockVars>>

\* Graphs of four nodes with up to MaxEdges edges.
MaxEdges == 5
BridgeNodes == <<"a", "b", "c", "index">>

BridgeGraphs ==
    {[nodes |-> BridgeNodes, edges |-> E] :
        E \in {E \in SUBSET (Range(BridgeNodes) \X Range(BridgeNodes)) :
                  Cardinality(E) <= MaxEdges}}

InitBridges ==
    /\ pin \in [graph : BridgeGraphs, multiProject : {{}, {"c"}}]
    /\ pout = <<>>
    /\ pdone = FALSE
    /\ LockIdle
    /\ OthersIdle

FindBridges ==
    Return([articulation |-> ArticulationPoints(pin.graph),
            bridges |-> findBridgeNotes(pin.graph, pin.multiProject)])

NextBridges == FindBridges

SpecBridges == InitBridges /\ [][NextBridges]_vars

\* Values num/den from just below 0 to just above 1, and bin counts.
MaxDen == 5
MaxBins == 4

InitEncode ==
    /\ pin \in {[value |-> [num |-> n, den |-> d], bins |-> b] :
                  n \in -1 .. MaxDen + 1, d \in 1 .. MaxDen, b \in 1 .. MaxBins}
    /\ pin.value.num <= pin.value.den + 1
    /\ pout = <<>>
    /\ pdone = FALSE
    /\ LockIdle
    /\ OthersIdle

Encode == Return(encodePiecewiseLinear(pin.value, pin.bins))

NextEncode == Encode

SpecEncode == InitEncode /\ [][NextEncode]_vars

\* What a key of the configuration file can hold in the model: nothing,
\* null, zero, another number, a string.
RawValues == {Undefined, Null, Number("0"), Number("7"), String("abc")}

InitConfig ==
    /\ pin \in [exists : BOOLEAN, raw : [DOMAIN DEFAULT_CONFIG -> RawValues]]
    /\ (~pin.exists => pin.raw = [key \in DOMAIN DEFAULT_CONFIG |-> Undefined])
    /\ pout = <<>>
    /\ pdone = FALSE
    /\ LockIdle
    /\ OthersIdle

LoadConfig == Return(loadConfig(pin))

NextConfig == LoadConfig

SpecConfig == InitConfig /\ [][NextConfig]_vars

\* Access logs of up to MaxEvents events of up to MaxResults results each;
\* an event may list a title twice.
MaxEvents == 3
MaxResults == 2

ResultLists ==
    UNION {[1 .. n -> [title : {"a", "b"}]] : n \in 0 .. MaxResults}

AccessLogs ==
    UNION {[1 .. n -> [results : ResultLists]] : n \in 0 .. MaxEvents}

Epsilons == {Frac(1, 100), Frac(1, 2), Frac(1, 1)}

InitPropensity ==
    /\ pin \in [events : AccessLogs, allNotes : {<<"a", "b">>, <<"b", "c">>},
                epsilon : Epsilons]
    /\ pout = <<>>
    /\ pdone = FALSE
    /\ LockIdle
    /\ OthersIdle

Propensity ==
    Return([one |-> [title \in Titles |->
                        computePropensity(title, pin.events, pin.epsilon)],
            map |-> buildPropensityMap(pin.events, pin.allNotes, pin.epsilon)])

NextPropensity == Propensity

SpecPropensity == InitPropensity /\ [][NextPropensity]_vars

\* Concurrent callers of the lock. A lock directory may be there from the
\* start: one left by a process that ended without releaseLock.
InitLock ==
    /\ locks \in SUBSET {lockDir(name) : name \in LockNames}
    /\ agents = [c \in Callers |-> NoAgent]
    /\ pin = <<>>
    /\ pout = <<>>
    /\ pdone = FALSE
    /\ OthersIdle

LockStep(c, agent, dirs) ==
    /\ agents' = [agents EXCEPT ![c] = agent]
    /\ locks' = dirs
    /\ UNCHANGED <<pin, pout, pdone, notes, dir, indexVars, queryVars, graphVars,
                   fusionVars, classifyVars, vitalityVars>>

\* acquireLock(root, name) is called.
AcquireLock(c, name) ==
    /\ agents[c].pc = "idle"
    /\ LockStep(c, Agent("mkdir", name), locks)

\* The mkdir of the call runs: the call returns lockDir or rejects.
Mkdir(c) ==
    /\ agents[c].pc = "mkdir"
    /\ \E made \in {mkdir(locks, lockDir(agents[c].name))} :
          LockStep(c, Agent(IF made.ok THEN "holding" ELSE "failed", agents[c].name),
                   made.dirs)

\* releaseLock(lockDir) is called by the caller that was given lockDir.
ReleaseLock(c) ==
    /\ agents[c].pc = "holding"
    /\ LockStep(c, Agent("rmdir", agents[c].name), locks)

\* The rmdir of the call runs.
Rmdir(c) ==
    /\ agents[c].pc = "rmdir"
    /\ \E gone \in {rmdir(locks, lockDir(agents[c].name))} :
          LockStep(c, IF gone.ok THEN NoAgent ELSE Agent("failed", agents[c].name),
                   gone.dirs)

\* The caller handles the rejection.
Caught(c) ==
    /\ agents[c].pc = "failed"
    /\ LockStep(c, NoAgent, locks)

NextLock ==
    \E c \in Callers :
        \/ \E name \in LockNames : AcquireLock(c, name)
        \/ Mkdir(c)
        \/ ReleaseLock(c)
        \/ Rmdir(c)
        \/ Caught(c)

SpecLock == InitLock /\ [][NextLock]_vars

\* Corpora of three documents, the third with the token "q" as its title,
\* searched on an index built with one pair of boosts and on an index built
\* with a larger pair.
MaxBoost == 2

BM25Docs(title) ==
    [title : {title}, titleTokens : {<<"q">>, <<"x">>},
     descTokens : {<<>>, <<"r">>}, bodyTokens : {<<>>, <<"q">>, <<"x", "x">>}]

BoostPairs == [title_boost : 1 .. MaxBoost, description_boost : 1 .. MaxBoost]

BM25Config(boosts, b) ==
    [k1 |-> Frac(6, 5), b |-> b,
     title_boost |-> boosts.title_boost, description_boost |-> boosts.description_boost]

InitBM25 ==
    /\ pin \in [docs : {<<a, b, c>> : a \in BM25Docs("a"), b \in BM25Docs("b"),
                                      c \in {doc \in BM25Docs("c") :
                                                /\ doc.titleTokens = <<"q">>
                                                /\ doc.descTokens = <<>>
                                                /\ doc.bodyTokens # <<"q">>}},
                query : {<<"q">>, <<"q", "r">>},
                b : {Frac(0, 4), Frac(3, 4)},
                limit : {1, 3},
                boosts : BoostPairs, larger : BoostPairs]
    /\ pin.boosts.title_boost <= pin.larger.title_boost
    /\ pin.boosts.description_boost <= pin.larger.description_boost
    /\ pin.boosts # pin.larger
    /\ pout = <<>>
    /\ pdone = FALSE
    /\ LockIdle
    /\ OthersIdle

SearchBM25 ==
    \E before \in {BM25Config(pin.boosts, pin.b)} :
    \E after \in {BM25Config(pin.larger, pin.b)} :
        Return([before |-> searchBM25Index(pin.query, buildBM25Index(pin.docs, before),
                                           before, pin.limit),
                after |-> searchBM25Index(pin.query, buildBM25Index(pin.docs, after),
                                          after, pin.limit)])

NextBM25 == SearchBM25

SpecBM25 == InitBM25 /\ [][NextBM25]_vars

\* ------------------------------------------------------------------------
\* Claims about the embedding index (checked under Spec)
\* ------------------------------------------------------------------------

CurrentHash(t) == hashContent(HashInput(t, notes[t].description, notes[t].body))
UpToDate(t) == t \in DOMAIN db.rows /\ db.rows[t].contentHash = CurrentHash(t)

\* C6: a non-forced index build that directly follows a completed build,
\* with no change between them, reports skipped = total and indexed = 0, and
\* the embeddings table has as many rows as the corpus has notes.
C6_SecondBuildSkipsAll ==
    (last.valid /\ last.hist.kind = "none" /\ ~last.force) =>
        /\ last.skipped = last.total
        /\ last.indexed = 0
        /\ Cardinality(DOMAIN db.rows) = Cardinality(DOMAIN notes)

\* C7: after a completed build, one change of one note's body and a
\* non-forced build: indexed = 1, skipped = total - 1, the changed note's
\* row is rewritten and every other row is as it was.
C7_OneBodyEditOneEmbed ==
    (last.valid /\ last.hist.kind = "bodyEdit" /\ ~last.force) =>
        /\ last.indexed = 1
        /\ last.skipped = last.total - 1
        /\ db.rows[last.hist.title] = NoteRow(last.hist.title, notes[last.hist.title], now)
        /\ DOMAIN db.rows = DOMAIN last.rows0
        /\ \A u \in DOMAIN db.rows \ {last.hist.title} : db.rows[u] = last.rows0[u]

C7_Witness ==
    /\ last.valid
    /\ last.hist.kind = "bodyEdit"
    /\ ~last.force
    /\ last.total = 3
    /\ last.rows0[last.hist.title].indexedAt < now

\* C8: (a) after a non-forced build is interrupted, every row of the store
\* is a complete row and the rows the interrupted build committed carry
\* their notes' current hashes; (b) the non-forced build that follows skips
\* exactly the notes whose stored hash is current, among them every note
\* the interrupted build committed, embeds exactly the others, and leaves
\* an up-to-date row for every note.
CompleteRow(t) ==
    \E f \in EditFiles : \E c \in 1 .. now : db.rows[t] = NoteRow(t, f, c)

C8_ResumeAfterInterrupt ==
    /\ (hist.kind = "interrupt" /\ ~hist.force) =>
            /\ \A t \in DOMAIN db.rows : CompleteRow(t)
            /\ \A t \in DOMAIN db.rows :
                    db.rows[t].indexedAt = now => (t \in DOMAIN notes /\ UpToDate(t))
    /\ (/\ last.valid /\ ~last.force
        /\ last.hist.kind = "interrupt" /\ ~last.hist.force) =>
            LET current == {t \in DOMAIN notes :
                                /\ t \in DOMAIN last.rows0
                                /\ last.rows0[t].contentHash = CurrentHash(t)}
                committed == {t \in DOMAIN last.rows0 : last.rows0[t].indexedAt = now - 1}
            IN /\ committed \subseteq current
               /\ last.skipped = Cardinality(current)
               /\ last.indexed = Cardinality(DOMAIN notes \ current)
               /\ \A t \in current : db.rows[t] = last.rows0[t]
               /\ \A t \in DOMAIN notes \ current :
                    db.rows[t] = NoteRow(t, notes[t], now)
               /\ \A t \in DOMAIN notes : UpToDate(t)

C8_Witness ==
    /\ last.valid /\ ~last.force
    /\ last.hist.kind = "interrupt" /\ ~last.hist.force
    /\ \E t \in DOMAIN last.rows0 : last.rows0[t].indexedAt = now - 1
    /\ \E t \in DOMAIN notes :
            t \in DOMAIN last.rows0 /\ last.rows0[t].contentHash # CurrentHash(t)
    /\ last.indexed = 2
    /\ last.skipped = 1

\* C12: after any creations, edits and deletions, query_dangling returns
\* exactly the link targets that occur in an existing note and are the title
\* of no existing note, each once; so the title of a deleted note that is
\* still linked to is reported by the next call.
LinkTargets == UNION {ExtractLinks(FileContent(notes[u])) : u \in DOMAIN notes}

C12_DanglingIsFresh ==
    resp.op = "dangling" =>
        /\ resp.success
        /\ Range(resp.dangling) = LinkTargets \ DOMAIN notes
        /\ Len(resp.dangling) = Cardinality(Range(resp.dangling))

\* b was a note (its row is still stored), was deleted, and is reported.
C12_Witness ==
    /\ resp.op = "dangling"
    /\ resp.dangling = <<"b">>
    /\ "b" \in DOMAIN db.rows
    /\ "b" \notin DOMAIN notes

\* ------------------------------------------------------------------------
\* Claims about queries (checked under SpecQuery)
\* ------------------------------------------------------------------------

Flagged(results) == {i \in DOMAIN results : WasExploration(results[i])}
Unflagged(results) == DOMAIN results \ Flagged(results)

\* The flagged titles are distinct and none of them is an unflagged title.
FlaggedDisjoint(results) ==
    /\ \A i \in Flagged(results) : \A j \in Unflagged(results) :
            results[i].title # results[j].title
    /\ \A i \in Flagged(results) : \A j \in Flagged(results) :
            results[i].title = results[j].title => i = j

C5_LogAppendOnly ==
    [][/\ Len(log') >= Len(log)
       /\ SubSeq(log', 1, Len(log)) = log
       /\ resp'.op # "ranked" => log' = log
       /\ resp'.op = "ranked" =>
            /\ Len(log') = Len(log) + 1
            /\ LET served == resp'.results
                   logged == log'[Len(log')].results
               IN /\ Len(logged) = Len(served)
                  /\ \A i \in DOMAIN served :
                        /\ logged[i].title = served[i].title
                        /\ logged[i].score = served[i].score
                        /\ logged[i].rank = i - 1
                        /\ logged[i].propensity = 0
                        /\ logged[i].wasExploration = WasExploration(served[i])]_vars

\* Two events in the log, the later one with an injected entry.
C5_Witness ==
    /\ Len(log) = 2
    /\ resp.op = "ranked"
    /\ \E i \in DOMAIN log[2].results : log[2].results[i].wasExploration
    /\ \E i \in DOMAIN log[2].results : ~log[2].results[i].wasExploration

\* C13: a failure to append the access event does not fail query_ranked: no
\* call ends with the error of logAccess reaching the caller.
C13_LogFailureNotFatal ==
    resp.op = "error" => ~(resp.call = "ranked" /\ resp.cause = "logAccess")

\* C14: when the embedding model fails during a query, query_ranked answers
\* from the keyword and graph signals with a warning: no call ends with the
\* error of embedText reaching the caller.
C14_EmbedFailureFallsBack ==
    resp.op = "error" => ~(resp.call = "ranked" /\ resp.cause = "embedText")

\* C15: query_ranked called with the empty query string, or on a vault
\* without notes, returns success = true and no results.
C15_EmptyQueryOrCorpusEmptyResult ==
    (resp.op = "ranked" /\ (env.query = "" \/ DOMAIN notes = {}))
        => (resp.success /\ resp.results = <<>>)

\* C16: on a vault without the directory notes/, a core read operation
\* takes the corpus as empty and returns: no call ends with the error of a
\* directory read reaching the caller.
C16_MissingNotesDirIsEmptyCorpus ==
    ~dir => ~(resp.op = "error" /\ resp.cause = "readdir")

\* The titles of the corpus that the trimmed list of the answer lacks.
Unseen == DOMAIN notes \ {resp.trimmed[i].title : i \in DOMAIN resp.trimmed}

\* The answer of a query_ranked call whose budget asked for more
\* replacements than there were unseen titles.
Deficit ==
    /\ resp.op = "ranked"
    /\ resp.trimmed # <<>>
    /\ resp.budget.num > 0
    /\ Cardinality(Unseen) < ReplaceCount(Len(resp.trimmed), resp.budget)

\* C17: when fewer unseen titles exist than the budget asks for, every
\* unseen title is inserted once as an exploration entry and the remaining
\* positions hold entries of the original tail: the output is as long as the
\* input and no title occurs in it twice.
C17_DeficitPadsWithOriginals ==
    Deficit =>
        LET n == Len(resp.trimmed)
            keepCount == n - ReplaceCount(n, resp.budget)
            out == resp.results
        IN /\ Len(out) = n
           /\ \A i, j \in DOMAIN out : out[i].title = out[j].title => i = j
           /\ {out[i].title : i \in Flagged(out)} = Unseen
           /\ \A i \in 1 .. keepCount : out[i] = resp.trimmed[i]
           /\ \A i \in Unflagged(out) :
                  i > keepCount => \E j \in keepCount + 1 .. n : out[i] = resp.trimmed[j]

\* Two results under the full budget with one unseen note: the note is
\* inserted first and the list's first entry fills the second position.
C17_Witness ==
    /\ Deficit
    /\ Len(resp.results) = 2
    /\ Flagged(resp.results) = {1}
    /\ resp.results[2] = resp.trimmed[1]

\* C9: a query_ranked or query_similar call that finds the database file
\* missing or the table without rows builds the index first: the vectors the
\* composite search reads are those of a completed build of the corpus, the
\* answer carries a warning, success is true, and the result is non-empty
\* when the corpus is non-empty.
C9_ColdStartBuildsFirst ==
    (resp.op \in {"ranked", "similar"} /\ resp.entry \in {"missing", "empty"}) =>
        /\ resp.success
        /\ resp.warnings # <<>>
        /\ (resp.entry = "missing" => resp.warnings[1] = WarnNotFound)
        /\ db.exists
        /\ resp.vectors = DOMAIN notes
        /\ \A t \in DOMAIN notes :
              /\ t \in DOMAIN db.rows
              /\ db.rows[t].contentHash = CurrentHash(t)
        /\ (DOMAIN notes # {} => resp.results # <<>>)

\* A ranked query met a missing database and answered with two entries.
C9_Witness ==
    /\ resp.op = "ranked"
    /\ resp.entry = "missing"
    /\ resp.warnings = <<WarnNotFound>>
    /\ Len(resp.results) = 2
    /\ DOMAIN db.rows = DOMAIN notes

\* Two result lists agree outside exploration: the same length, exploration
\* entries at the same positions, the same entry at every other position.
SameOutsideExploration(r1, r2) ==
    /\ Len(r1) = Len(r2)
    /\ \A i \in DOMAIN r1 \cap DOMAIN r2 :
          /\ WasExploration(r1[i]) = WasExploration(r2[i])
          /\ ~WasExploration(r1[i]) => r1[i] = r2[i]

\* C24: a query_ranked run that follows a query_ranked run with the same
\* limit on the same vault (notes, embedding rows and scores unchanged)
\* returns the same entries at all positions that are no exploration
\* entries.
C24_SameOutsideExploration ==
    [][(/\ resp.op = "ranked" /\ resp'.op = "ranked"
        /\ resp.limit = resp'.limit
        /\ db' = db /\ notes' = notes)
       => SameOutsideExploration(resp.results, resp'.results)]_vars

\* C24 witness: two runs in a row returned two entries each, the same kept
\* entry first and an exploration entry second.
C24_Witness ==
    /\ Len(log) >= 2
    /\ Len(log[1].results) = 2
    /\ Len(log[2].results) = 2
    /\ ~log[1].results[1].wasExploration
    /\ log[1].results[2].wasExploration
    /\ log[1].results[1].title = log[2].results[1].title
    /\ resp.op = "ranked"
    /\ Len(resp.results) = 2
    /\ resp.results[1].title = log[1].results[1].title

\* C28: every title query_ranked returns is the title of a note file that
\* exists at the call: no dangling link target, no note deleted since the
\* last index build.
C28_ResultsAreNotes ==
    resp.op = "ranked" =>
        \A i \in DOMAIN resp.results : resp.results[i].title \in DOMAIN notes

\* ------------------------------------------------------------------------
\* Claims about the intent (checked under SpecClassify)
\* ------------------------------------------------------------------------

\* The intents whose group has the highest match count on the query.
Leaders(query) ==
    {i \in Range(INTENT_PATTERNS) :
        \A j \in Range(INTENT_PATTERNS) : MatchCount(query, i) >= MatchCount(query, j)}

\* C18: classifyIntent returns the intent whose group has strictly the most
\* matches; when two or more intents share the highest count, and when
\* nothing matches, it returns semantic.
C18_TiesDefaultToSemantic ==
    cdone =>
        IF Cardinality(Leaders(cin)) = 1
        THEN cout.intent \in Leaders(cin)
        ELSE cout.intent = "semantic"

\* ------------------------------------------------------------------------
\* Claims about vitality (checked under SpecVitality)
\* ------------------------------------------------------------------------

\* C19: whatever the note's access count, age, in-degree, revival input and
\* bridge membership, the vitality computeVitalityFull returns lies in
\* [0, 1].
C19_VitalityInUnitInterval ==
    vdone => (0 <= vout /\ vout <= Scale)

\* C20: in query_ranked, query_similar and query_fading the vitality of a
\* note of the bridge set is at least the configured bridge floor.
C20_BridgeAtLeastConfiguredFloor ==
    (vdone /\ vop \in {"query_ranked", "query_similar", "query_fading"} /\ vin.bridge)
        => vout >= vin.bridge_vitality_floor

\* ------------------------------------------------------------------------
\* Claims about bridge notes (checked under SpecBridges)
\* ------------------------------------------------------------------------

Joined(g, S, R) ==
    {v \in S : \E u \in R : <<u, v>> \in g.edges \/ <<v, u>> \in g.edges}

\* The connected component of the nodes R within S, undirected.
RECURSIVE ComponentOf(_, _, _)
ComponentOf(g, S, R) ==
    IF Joined(g, S, R) \subseteq R THEN R
    ELSE ComponentOf(g, S, R \cup Joined(g, S, R))

\* The number of connected components of the undirected view on S.
RECURSIVE Components(_, _)
Components(g, S) ==
    IF S = {} THEN 0
    ELSE LET n == CHOOSE n \in S : TRUE
         IN 1 + Components(g, S \ ComponentOf(g, S, {n}))

\* Removing the node leaves more connected components than there were.
IsCutNode(g, node) ==
    Components(g, GNodes(g) \ {node}) > Components(g, GNodes(g))

\* C27: the low-link DFS adds a node if and only if removing the node
\* increases the number of connected components of the undirected view.
C27_DfsFindsCutNodes ==
    pdone =>
        \A node \in GNodes(pin.graph) :
            node \in pout.articulation <=> IsCutNode(pin.graph, node)

\* The root of a DFS tree with two children, and an inner node of a path:
\* both are cut nodes of the path b - a - c - index.
C27_Witness ==
    /\ pdone
    /\ pin.graph.edges = {<<"b", "a">>, <<"c", "a">>, <<"c", "index">>}
    /\ pout.articulation = {"a", "c"}

\* ------------------------------------------------------------------------
\* Claims about the encoding (checked under SpecEncode)
\* ------------------------------------------------------------------------

\* C25: for v in [0,1] and B >= 1 the vector has length B, every bin below
\* floor(v*B) is 1, the bin floor(v*B) holds v*B - floor(v*B), every higher
\* bin is 0, and for v = 1 every bin is 1.
C25_PiecewiseLinearBins ==
    (pdone /\ 0 <= pin.value.num /\ pin.value.num <= pin.value.den) =>
        LET den == pin.value.den
            scaled == pin.value.num * pin.bins
            floorVB == scaled \div den
        IN /\ DOMAIN pout = 1 .. pin.bins
           /\ \A i \in 1 .. pin.bins :
                 pout[i] = IF i - 1 < floorVB THEN den
                           ELSE IF i - 1 = floorVB THEN scaled - floorVB * den
                           ELSE 0
           /\ pin.value.num = den => \A i \in 1 .. pin.bins : pout[i] = den

\* 3/5 in four bins: two full bins, the third filled to 2/5, the last empty.
C25_Witness ==
    /\ pdone
    /\ pin = [value |-> [num |-> 3, den |-> 5], bins |-> 4]
    /\ pout = <<5, 5, 2, 0>>

\* ------------------------------------------------------------------------
\* Claims about the configuration (checked under SpecConfig)
\* ------------------------------------------------------------------------

\* The keys of the model that the engine uses as numbers.
NumericKeys == {"vitality_base", "retrieval_rrf_k", "retrieval_exploration_budget"}

\* C22: a missing key yields its documented default, and a value that is no
\* number where a number is required (retrieval.rrf_k,
\* retrieval.exploration_budget) makes loadConfig fail instead of reaching
\* the engine.
C22_DefaultsAndFatalStructure ==
    (pdone /\ pin.exists) =>
        /\ \A key \in DOMAIN DEFAULT_CONFIG :
              (pout.ok /\ pin.raw[key] = Undefined)
                  => pout.config[key] = DEFAULT_CONFIG[key]
        /\ (\E key \in NumericKeys : pin.raw[key].kind = "string") => ~pout.ok

\* ------------------------------------------------------------------------
\* Claims about propensity (checked under SpecPropensity)
\* ------------------------------------------------------------------------

NoTitleTwice(events) ==
    \A i \in DOMAIN events : \A j, k \in DOMAIN events[i].results :
        events[i].results[j].title = events[i].results[k].title => j = k

EventsListing(events, title) ==
    Cardinality({i \in DOMAIN events : Lists(events[i], title)})

\* C29: on a log in which no event lists a title twice, computePropensity
\* gives for every title of allNotes the value buildPropensityMap stores for
\* it; the value is max(epsilon, events listing the title / events), within
\* [epsilon, 1], and epsilon when the log is empty.
C29_PropensityAgrees ==
    (pdone /\ NoTitleTwice(pin.events)) =>
        \A title \in DOMAIN pout.map :
            LET p == pout.one[title]
                n == Len(pin.events)
                share == Frac(EventsListing(pin.events, title), n)
            IN /\ FracEq(p, pout.map[title])
               /\ n = 0 => p = pin.epsilon
               /\ n > 0 => /\ FracLeq(share, p) /\ FracLeq(pin.epsilon, p)
                           /\ FracEq(p, share) \/ FracEq(p, pin.epsilon)
               /\ FracLeq(pin.epsilon, p) /\ FracLeq(p, Frac(1, 1))

\* C29 witness: a title listed by one event of two, with epsilon 1/100, has
\* propensity 1/2 in both.
C29_Witness ==
    /\ pdone
    /\ NoTitleTwice(pin.events)
    /\ Len(pin.events) = 2
    /\ pin.epsilon = Frac(1, 100)
    /\ "b" \in DOMAIN pout.map
    /\ EventsListing(pin.events, "b") = 1
    /\ pout.one["b"] = Frac(1, 2)
    /\ pout.map["b"] = Frac(1, 2)

\* ------------------------------------------------------------------------
\* Claims about the directory lock (checked under SpecLock)
\* ------------------------------------------------------------------------

\* The callers that hold the lock of a name: acquireLock has returned to
\* them and their releaseLock has not removed the directory yet.
Holders(name) == {c \in Callers : agents[c].name = name /\ agents[c].pc \in {"holding", "rmdir"}}

\* C30: at most one caller holds the lock of a name at a time; an
\* acquireLock whose mkdir runs while the lock directory exists fails at
\* once, and one whose mkdir runs after releaseLock removed the directory
\* succeeds.
C30_MutualExclusion ==
    /\ [](\A name \in LockNames :
            /\ Cardinality(Holders(name)) <= 1
            /\ Holders(name) # {} => lockDir(name) \in locks)
    /\ [][\A c \in Callers :
            /\ agents[c].pc = "mkdir" => ENABLED Mkdir(c)
            /\ (agents[c].pc = "mkdir" /\ agents'[c] # agents[c]) =>
                  agents'[c].pc = IF lockDir(agents[c].name) \in locks
                                  THEN "failed" ELSE "holding"
            /\ (agents[c].pc = "rmdir" /\ agents'[c] # agents[c]) =>
                  lockDir(agents[c].name) \notin locks']_vars

\* C30 witness: one caller holds the vault lock, a second one's acquireLock
\* has failed on it, and a third awaits its mkdir.
C30_Witness ==
    \E c, d, e \in Callers :
        /\ agents[c] = Agent("holding", "vault")
        /\ agents[d] = Agent("failed", "vault")
        /\ agents[e] = Agent("mkdir", "vault")

\* ------------------------------------------------------------------------
\* Claims about BM25 scores (checked under SpecBM25)
\* ------------------------------------------------------------------------

\* The score a result list gives a document: 0 when it is absent.
ScoreIn(list, title) ==
    IF \E i \in DOMAIN list : list[i].title = title
    THEN list[CHOOSE i \in DOMAIN list : list[i].title = title].score
    ELSE 0

HasQueryToken(doc) ==
    Range(pin.query) \cap
        (Range(doc.titleTokens) \cup Range(doc.descTokens) \cup Range(doc.bodyTokens)) # {}

\* score(d) - score(e) does not go down from the first index to the second.
GapKept(d, e) ==
    ScoreIn(pout.before, d) - ScoreIn(pout.before, e)
        <= ScoreIn(pout.after, d) - ScoreIn(pout.after, e)

\* C26 as stated: for every document d with a query token and every
\* document e with none, a larger title_boost or description_boost does not
\* decrease score(d) - score(e).
C26_LargerBoostKeepsGap ==
    pdone =>
        \A i, j \in DOMAIN pin.docs :
            (HasQueryToken(pin.docs[i]) /\ ~HasQueryToken(pin.docs[j]))
                => GapKept(pin.docs[i].title, pin.docs[j].title)

\* C26, amended: the same without length normalisation (b = 0) and with a
\* limit that cuts no document off the result.
C26_LargerBoostKeepsGapUnnormalised ==
    (pdone /\ pin.b.num = 0 /\ pin.limit >= Len(pin.docs)) =>
        \A i, j \in DOMAIN pin.docs :
            (HasQueryToken(pin.docs[i]) /\ ~HasQueryToken(pin.docs[j]))
                => GapKept(pin.docs[i].title, pin.docs[j].title)

\* C26 witness: b = 0, nothing cut, a document with the query token in its
\* title whose score rises with the title boost, and a document without.
C26_Witness ==
    /\ pdone
    /\ pin.b.num = 0
    /\ pin.limit >= Len(pin.docs)
    /\ pin.docs[1].titleTokens = <<"q">>
    /\ ~HasQueryToken(pin.docs[2])
    /\ ScoreIn(pout.after, "a") > ScoreIn(pout.before, "a")
    /\ ScoreIn(pout.after, "b") = 0

\* ------------------------------------------------------------------------
\* Claims about the core operations (checked under SpecCore)
\* ------------------------------------------------------------------------

\* C23: no step of a core operation (query_ranked, query_similar,
\* query_important, query_fading, query_orphans, query_dangling,
\* query_backlinks, index_build) creates, changes or deletes a note file or
\* the directory notes/; of the persistent state only the embedding store
\* and the propensity log change.
C23_CoreOperationsLeaveNotes ==
    [][notes' = notes /\ dir' = dir /\ locks' = locks]_vars

\* C23 witness: after an index build and a logged query, with a
\* query_fading answer in hand, the notes are the three of the start.
C23_Witness ==
    /\ resp.op = "fading"
    /\ Len(resp.results) > 0
    /\ Len(log) > 0
    /\ DOMAIN db.rows = Titles
    /\ notes = InitialCorpus

\* ------------------------------------------------------------------------
\* Claims about the link graph (checked under SpecGraph)
\* ------------------------------------------------------------------------

\* C10: in the graph buildGraph returns, M is in incoming[N] exactly when N
\* is in outgoing[M], for all titles N and M (a title without an entry has
\* the empty set).
OutgoingOf(g, m) == IF m \in DOMAIN g.outgoing THEN g.outgoing[m] ELSE {}
IncomingOf(g, n) == IF n \in DOMAIN g.incoming THEN g.incoming[n] ELSE {}

C10_IncomingMirrorsOutgoing ==
    gdone =>
        \A n \in Titles : \A m \in Titles :
            m \in IncomingOf(graph, n) <=> n \in OutgoingOf(graph, m)

C10_Witness ==
    /\ gdone
    /\ "a" \in IncomingOf(graph, "a")
    /\ "c" \notin DOMAIN notes
    /\ notes["a"].body = <<Link(" a")>>
    /\ "b" \in IncomingOf(graph, "c")

\* C11: the in-degree the engine uses for a note equals the number of
\* distinct other notes whose body holds a link token naming it; a link of
\* the note to itself and a link token in a metadata header do not count.
BodyLinkers(t) ==
    {u \in DOMAIN notes \ {t} : t \in ExtractLinks(notes[u].body)}

C11_InDegreeCountsOtherBodies ==
    gdone => \A t \in DOMAIN notes :
                InDegree(graph, t) = Cardinality(BodyLinkers(t))

\* ------------------------------------------------------------------------
\* Claims about the fusion (checked under SpecFusion)
\* ------------------------------------------------------------------------

ListTitles(list) == {list[i].title : i \in DOMAIN list}
TitleSeq(list) == [i \in DOMAIN list |-> list[i].title]
PosOf(list, t) == CHOOSE i \in DOMAIN list : list[i].title = t
EntryOf(list, t) == list[PosOf(list, t)]
Emptied(signals, s) == [signals EXCEPT ![s] = <<>>]

\* C2: the fused list holds every title of the three lists exactly once; an
\* entry's fused score (in units of 1/Denom) is the sum over exactly the
\* signals listing the title of weight * raw score / (k + rank + 1), rank
\* zero-based; each contributing raw score is kept on the entry (beside the
\* fused score, under rrf); and the list is ordered by fused score descending.
C2_FusedScores ==
    fdone =>
        LET sig == fin.signals
            all == UNION {ListTitles(sig[n]) : n \in SignalSet}
        IN /\ Len(fout) = Cardinality(all)
           /\ ListTitles(fout) = all
           /\ \A i \in DOMAIN fout :
                LET e == fout[i]
                    inSig == {n \in SignalSet : e.title \in ListTitles(sig[n])}
                    term == [n \in inSig |->
                                fin.weights[n] * EntryOf(sig[n], e.title).score
                                * (Denom(RRF_K) \div (RRF_K + (PosOf(sig[n], e.title) - 1) + 1))]
                IN /\ e.score = SumOver(inSig, term)
                   /\ DOMAIN e.signals = inSig \cup {"rrf"}
                   /\ e.signals.rrf = e.score
                   /\ \A n \in inSig : e.signals[n] = EntryOf(sig[n], e.title).score
           /\ \A i \in DOMAIN fout : \A j \in DOMAIN fout :
                i < j => fout[i].score >= fout[j].score

C2_Witness ==
    /\ fdone
    /\ Len(fout) = 3
    /\ \E t \in Titles :
        /\ \A n \in SignalSet : t \in ListTitles(fin.signals[n])
        /\ PosOf(fin.signals.composite, t) # PosOf(fin.signals.keyword, t)
    /\ fout[1].score > fout[3].score

\* Two signals x, y list the same titles in the same order and the third
\* list is empty.
SameRanking(x, y) ==
    /\ x # y
    /\ TitleSeq(fin.signals[x]) = TitleSeq(fin.signals[y])
    /\ Len(fin.signals[x]) >= 2
    /\ \A z \in SignalSet \ {x, y} : fin.signals[z] = <<>>
    /\ \A n \in SignalSet : fin.weights[n] >= 0

NonNegative(list) == \A i \in DOMAIN list : list[i].score >= 0

\* C3 (as claimed): when two signals give the same ranking and the third is
\* empty, the fused list has the titles in that order, for every raw score.
C3_SameRankingKept ==
    fdone =>
        \A x \in SignalSet : \A y \in SignalSet :
            SameRanking(x, y) => TitleSeq(fout) = TitleSeq(fin.signals[x])

\* C3 (amended): the same, for lists whose raw scores are all non-negative.
C3_SameRankingKeptNonNeg ==
    fdone =>
        \A x \in SignalSet : \A y \in SignalSet :
            (/\ SameRanking(x, y)
             /\ NonNegative(fin.signals[x])
             /\ NonNegative(fin.signals[y]))
            => TitleSeq(fout) = TitleSeq(fin.signals[x])

C3_Witness ==
    /\ fdone
    /\ SameRanking("composite", "keyword")
    /\ NonNegative(fin.signals.composite)
    /\ Len(fout) = 3
    /\ fin.signals.composite[1].score = fin.signals.composite[3].score
    /\ fin.weights.composite > 0

\* The titles of list in order, those outside keep dropped.
RECURSIVE TitleSeqWithin(_, _)
TitleSeqWithin(list, keep) ==
    IF list = <<>> THEN <<>>
    ELSE (IF Head(list).title \in keep THEN <<Head(list).title>> ELSE <<>>)
         \o TitleSeqWithin(Tail(list), keep)

\* C4 (as claimed): a signal at weight zero leaves the fused order as it is
\* with that signal's list empty (compared on the titles the other lists
\* hold).
C4_ZeroWeightSameOrder ==
    fdone =>
        \A s \in SignalSet :
            fin.weights[s] = 0 =>
                LET without == fuseScoreWeightedRRF(Emptied(fin.signals, s),
                                                    fin.weights, RRF_K)
                IN TitleSeqWithin(fout, ListTitles(without)) = TitleSeq(without)

\* C4 (amended): a signal s at weight zero changes no fused score: every
\* title of the other lists has the fused score it has with the list of s
\* empty, a title listed by s alone gets fused score 0, and two titles of
\* the other lists whose fused scores differ keep their relative order.
C4_ZeroWeightSameScores ==
    fdone =>
        \A s \in SignalSet :
            fin.weights[s] = 0 =>
                LET without == fuseScoreWeightedRRF(Emptied(fin.signals, s),
                                                    fin.weights, RRF_K)
                IN /\ ListTitles(without) \subseteq ListTitles(fout)
                   /\ \A i \in DOMAIN fout :
                        IF fout[i].title \in ListTitles(without)
                        THEN fout[i].score = EntryOf(without, fout[i].title).score
                        ELSE fout[i].score = 0
                   /\ \A t \in ListTitles(without) : \A u \in ListTitles(without) :
                        EntryOf(without, t).score > EntryOf(without, u).score
                        => PosOf(fout, t) < PosOf(fout, u)

C4_Witness ==
    /\ fdone
    /\ fin.weights.graph = 0
    /\ Len(fin.signals.graph) >= 2
    /\ Len(fin.signals.composite) >= 2
    /\ ListTitles(fin.signals.graph) \ ListTitles(fin.signals.composite) # {}
    /\ fout[1].score > fout[2].score

====
